---- MODULE Spec2Model ----
(***************************************************************************)
(* A model of the cs-ranking learners (PairwiseSVM and its discrete-choice *)
(* subclass, FATELinearCore, RandomBaselineDC, FATEObjectRanker,           *)
(* FETAChoiceFunction) and of the experiment runner.                       *)
(*                                                                         *)
(* Python values are modelled as follows.  An attribute that is unset or   *)
(* None is the empty tuple NoneV and a set attribute v is <<v>>.  Arrays   *)
(* are tuples of integers.  A numpy RandomState is a linear congruential   *)
(* generator over 0..RandMod-1; a draw k stands for the float k/RandMod.   *)
(* An operation that raises has the exception's name in its exc field and  *)
(* "ok" otherwise.                                                         *)
(***************************************************************************)
EXTENDS Integers, Sequences, FiniteSets, TLC

----------------------------------------------------------------------------
(* Bounds of the model *)

\* largest feature count of an input batch
MaxFeatures == 2
\* number of integer seeds 0..MaxSeed-1 a random_state argument ranges over
MaxSeed == 1
\* modulus of the generator that stands for numpy's RandomState
RandMod == 8
\* largest number of instances of an input batch
MaxInstances == 1
\* largest number of epochs a fit is asked for
MaxEpochs == 1
\* largest n_hidden_set_units of a FATELinearCore
MaxHidden == 1
\* resolution of the fixed-point numbers that stand for floats in [0, 1]
Scale == 8
\* largest number of queries handed to FETAChoiceFunction.fit
MaxQueries == 3

----------------------------------------------------------------------------
(* Values *)

NoneV == <<>>

Some(v) == <<v>>

Val(opt) == opt[1]

RECURSIVE SumSeq(_)
SumSeq(s) == IF s = <<>> THEN 0 ELSE Head(s) + SumSeq(Tail(s))

\* numpy.dot of two 1-d arrays of the same length
Dot(a, b) == SumSeq([k \in 1..Len(a) |-> a[k] * b[k]])

\* a[:-1]
DropLast(a) == SubSeq(a, 1, Len(a) - 1)

----------------------------------------------------------------------------
(* Input batches: X of shape (ni, no, nf), entries in -1..1 *)

Shapes == [ni : 1..MaxInstances, no : {2}, nf : 1..MaxFeatures]

XVal(X, i, o, f) == ((i + 2 * o + f + (o * f)) % 3) - 1

\* the feature vector X[i, o, :]
XRow(X, i, o) == [f \in 1..X.nf |-> XVal(X, i, o, f)]

----------------------------------------------------------------------------
(* numpy.random.RandomState and sklearn.utils.check_random_state *)

GenIds == {"global", "inst", "own"}

\* the random_state argument of a constructor: None, an integer seed, or a
\* RandomState instance the caller holds
RandomStates ==
    {[kind |-> "None", seed |-> 0], [kind |-> "inst", seed |-> 0]}
        \cup [kind : {"seed"}, seed : 0..(MaxSeed - 1)]

LcgNext(s) == (5 * s + 3) % RandMod

RECURSIVE LcgDraw(_, _)
\* the k numbers a generator in state s returns next
LcgDraw(s, k) == IF k = 0 THEN <<>> ELSE <<LcgNext(s)>> \o LcgDraw(LcgNext(s), k - 1)

RECURSIVE LcgSkip(_, _)
LcgSkip(s, k) == IF k = 0 THEN s ELSE LcgSkip(LcgNext(s), k - 1)

\* check_random_state with a RandomState instance copied instead of returned
check_random_state_copy(random_state, g) ==
    IF random_state.kind = "None" THEN [id |-> "global", gens |-> g]
    ELSE IF random_state.kind = "inst"
    THEN [id |-> "own", gens |-> [g EXCEPT !["own"] = g["inst"]]]
    ELSE [id |-> "own", gens |-> [g EXCEPT !["own"] = random_state.seed % RandMod]]

\* check_random_state(seed): None is numpy's global generator, an integer
\* seeds a new generator, a RandomState instance is returned as it is
check_random_state(random_state, g) ==
    IF random_state.kind = "None" THEN [id |-> "global", gens |-> g]
    ELSE IF random_state.kind = "inst" THEN [id |-> "inst", gens |-> g]
    ELSE [id |-> "own", gens |-> [g EXCEPT !["own"] = random_state.seed % RandMod]]

----------------------------------------------------------------------------
(* Classes, their method tables and Python's method resolution *)

Classes == {"PairwiseSVM", "PairwiseSVMDiscreteChoiceFunction", "RankSVM",
            "RandomBaselineDC", "FATEObjectRanker", "FATELinearObjectRanker"}

FATELinearClasses == {"FATELinearObjectRanker"}

SVMClasses == {"PairwiseSVM", "PairwiseSVMDiscreteChoiceFunction", "RankSVM"}

\* the linearised bases of a class, the class first
MRO(cls) ==
    CASE cls = "PairwiseSVMDiscreteChoiceFunction" ->
             <<"PairwiseSVMDiscreteChoiceFunction", "PairwiseSVM",
               "DiscreteObjectChooser", "Learner">>
      [] cls = "RankSVM" -> <<"RankSVM", "PairwiseSVM", "ObjectRanker", "Learner">>
      [] cls = "PairwiseSVM" -> <<"PairwiseSVM", "Learner">>
      [] cls = "RandomBaselineDC" ->
             <<"RandomBaselineDC", "DiscreteObjectChooser", "Learner">>
      [] cls = "FATEObjectRanker" ->
             <<"FATEObjectRanker", "FATENetwork", "ObjectRanker", "Learner">>
      [] cls = "FATELinearObjectRanker" ->
             <<"FATELinearObjectRanker", "FATELinearCore", "ObjectRanker", "Learner">>
      [] OTHER -> <<>>

\* the methods a class body defines
Defines(c) ==
    CASE c = "PairwiseSVM" ->
             {"__init__", "fit", "_predict_scores_fixed", "_convert_instances_"}
      [] c = "PairwiseSVMDiscreteChoiceFunction" ->
             {"__init__", "_convert_instances", "fit", "_predict_scores_fixed",
              "predict_scores", "predict_for_scores", "predict"}
      [] c = "RankSVM" -> {"_convert_instances_"}
      [] c = "FATELinearObjectRanker" -> {}
      [] c = "RandomBaselineDC" -> {"__init__", "fit", "_predict_scores_fixed"}
      [] c = "FATEObjectRanker" ->
             {"__init__", "predict", "_predict_scores_fixed", "predict_scores",
              "clear_memory"}
      [] c = "FATENetwork" -> {"__init__", "fit", "_predict_scores_fixed", "predict_scores"}
      [] c = "FATELinearCore" ->
             {"__init__", "_construct_model_", "step_decay", "_pre_fit", "fit", "_fit_",
              "_predict_scores_fixed"}
      [] c = "DiscreteObjectChooser" -> {"predict_for_scores", "predict"}
      [] c = "ObjectRanker" -> {"predict_for_scores", "predict"}
      [] c = "Learner" -> {"_pre_fit", "predict_scores", "predict"}
      [] OTHER -> {}

\* the class whose definition of method name an instance of cls runs
Resolve(cls, name) ==
    LET m == MRO(cls)
        hits == {k \in 1..Len(m) : name \in Defines(m[k])}
    IN  IF hits = {} THEN "AttributeError"
        ELSE m[CHOOSE k \in hits : \A j \in hits : k <= j]

----------------------------------------------------------------------------
(* Learner objects *)

NoObj ==
    [cls |-> "none", attrs |-> {}, fitted |-> FALSE,
     random_state |-> [kind |-> "None", seed |-> 0], random_state_ |-> NoneV,
     normalize |-> TRUE, fit_intercept |-> TRUE, weights |-> NoneV, model |-> NoneV,
     n_objects_fit_ |-> NoneV, n_object_features_fit_ |-> NoneV,
     n_hidden_set_units |-> 0, batch_size |-> 0, tf |-> NoneV, tf_init |-> NoneV,
     current_lr_ |-> NoneV,
     weight1_ |-> NoneV, bias1_ |-> NoneV, weight2_ |-> NoneV, bias2_ |-> NoneV]

----------------------------------------------------------------------------
(* csrank/core/pairwise_svm.py and csrank/discretechoice/pairwise_discrete_choice.py *)

\* the attributes PairwiseSVM.__init__ assigns; n_object_features arrives in
\* **kwargs and is dropped
PairwiseSVM_init_attrs ==
    {"normalize", "C", "tol", "logger", "random_state", "threshold_instances",
     "fit_intercept", "weights", "model"}

PairwiseSVM_init(cls, normalize, fit_intercept, random_state) ==
    [NoObj EXCEPT !.cls = cls, !.attrs = PairwiseSVM_init_attrs,
                  !.normalize = normalize, !.fit_intercept = fit_intercept,
                  !.random_state = random_state]

\* PairwiseSVMDiscreteChoiceFunction.__init__: the parent's __init__, then a log
\* line that reads self.n_object_features
PairwiseSVMDiscreteChoiceFunction_init(normalize, fit_intercept, random_state) ==
    LET o == PairwiseSVM_init("PairwiseSVMDiscreteChoiceFunction", normalize,
                              fit_intercept, random_state)
    IN  IF "n_object_features" \in o.attrs
        THEN [obj |-> o, exc |-> "ok"]
        ELSE [obj |-> NoObj, exc |-> "AttributeError"]

\* PairwiseSVM._convert_instances_, the hook of the base class
PairwiseSVM_convert_instances_(X) ==
    [exc |-> "NotImplementedError", rows |-> 0, cols |-> 0]

\* PairwiseSVMDiscreteChoiceFunction._convert_instances (no trailing underscore)
PairwiseSVMDiscreteChoiceFunction_convert_instances(X) ==
    [exc |-> "ok", rows |-> X.ni * (X.no - 1), cols |-> X.nf]

\* a subclass that implements the hook: one row per pair of objects
RankSVM_convert_instances_(X) ==
    [exc |-> "ok", rows |-> X.ni * ((X.no * (X.no - 1)) \div 2), cols |-> X.nf]

\* self._convert_instances_(X, Y) as fit calls it
convert_instances_call(cls, X) ==
    LET c == Resolve(cls, "_convert_instances_")
    IN  CASE c = "PairwiseSVM" -> PairwiseSVM_convert_instances_(X)
          [] c = "RankSVM" -> RankSVM_convert_instances_(X)
          [] OTHER -> [exc |-> "AttributeError", rows |-> 0, cols |-> 0]

\* x_train.shape[0] > self.threshold_instances, with threshold_instances = int(1e10):
\* no batch of the model has that many rows
ThresholdExceeded(rows) == FALSE

\* PairwiseSVM.fit with the estimator created before the instances are converted
PairwiseSVM_fit_model_first(o, X, coef, intercept, g) ==
    LET rs == check_random_state(o.random_state, g)
        o1 == [o EXCEPT !.random_state_ = Some(rs.id),
                        !.n_objects_fit_ = Some(X.no),
                        !.n_object_features_fit_ = Some(X.nf),
                        !.model = Some("LinearSVC"),
                        !.attrs = @ \cup {"random_state_", "n_objects_fit_",
                                          "n_object_features_fit_"}]
        conv == convert_instances_call(o.cls, X)
        w == IF o.fit_intercept THEN coef \o <<intercept>> ELSE coef
    IN  IF conv.exc # "ok"
        THEN [obj |-> o1, exc |-> conv.exc, gens |-> rs.gens]
        ELSE [obj |-> [o1 EXCEPT !.weights = Some(w), !.fitted = TRUE],
              exc |-> "ok", gens |-> rs.gens]

\* PairwiseSVM.fit; coef and intercept are what the fitted estimator holds in
\* coef_ and intercept_
PairwiseSVM_fit(o, X, coef, intercept, g) ==
    LET rs == check_random_state(o.random_state, g)
        o1 == [o EXCEPT !.random_state_ = Some(rs.id),
                        !.n_objects_fit_ = Some(X.no),
                        !.n_object_features_fit_ = Some(X.nf),
                        !.attrs = @ \cup {"random_state_", "n_objects_fit_",
                                          "n_object_features_fit_"}]
        conv == convert_instances_call(o.cls, X)
        o2 == [o1 EXCEPT !.model = IF ThresholdExceeded(conv.rows)
                                   THEN Some("LogisticRegression")
                                   ELSE Some("LinearSVC")]
        w == IF o.fit_intercept THEN coef \o <<intercept>> ELSE coef
    IN  IF conv.exc # "ok"
        THEN [obj |-> o1, exc |-> conv.exc, gens |-> rs.gens]
        ELSE [obj |-> [o2 EXCEPT !.weights = Some(w), !.fitted = TRUE],
              exc |-> "ok", gens |-> rs.gens]

\* PairwiseSVM._predict_scores_fixed that adds the intercept to every score
PairwiseSVM_predict_scores_fixed_with_intercept(o, X, g) ==
    IF o.n_object_features_fit_ = NoneV
    THEN [exc |-> "AttributeError", scores |-> NoneV, computed |-> 0, obj |-> o, gens |-> g]
    ELSE IF X.nf # Val(o.n_object_features_fit_)
    THEN [exc |-> "AssertionError", scores |-> NoneV, computed |-> 0, obj |-> o, gens |-> g]
    ELSE IF o.weights = NoneV
    THEN [exc |-> "TypeError", scores |-> NoneV, computed |-> 0, obj |-> o, gens |-> g]
    ELSE LET w == IF o.fit_intercept THEN DropLast(Val(o.weights)) ELSE Val(o.weights)
             b == IF o.fit_intercept THEN Val(o.weights)[Len(Val(o.weights))] ELSE 0
         IN  IF Len(w) # X.nf
             THEN [exc |-> "ValueError", scores |-> NoneV, computed |-> 0, obj |-> o,
                   gens |-> g]
             ELSE [exc |-> "ok",
                   scores |-> Some([i \in 1..X.ni |->
                                      [k \in 1..X.no |-> Dot(XRow(X, i, k), w) + b]]),
                   computed |-> X.ni * X.no, obj |-> o, gens |-> g]

\* PairwiseSVM._predict_scores_fixed that strips the intercept from self.weights
\* itself instead of from a copy
PairwiseSVM_predict_scores_fixed_in_place(o, X, g) ==
    IF o.n_object_features_fit_ = NoneV
    THEN [exc |-> "AttributeError", scores |-> NoneV, computed |-> 0, obj |-> o, gens |-> g]
    ELSE IF X.nf # Val(o.n_object_features_fit_)
    THEN [exc |-> "AssertionError", scores |-> NoneV, computed |-> 0, obj |-> o, gens |-> g]
    ELSE IF o.weights = NoneV
    THEN [exc |-> "TypeError", scores |-> NoneV, computed |-> 0, obj |-> o, gens |-> g]
    ELSE LET w == IF o.fit_intercept THEN DropLast(Val(o.weights)) ELSE Val(o.weights)
             o1 == [o EXCEPT !.weights = Some(w)]
         IN  IF Len(w) # X.nf
             THEN [exc |-> "ValueError", scores |-> NoneV, computed |-> 0, obj |-> o1,
                   gens |-> g]
             ELSE [exc |-> "ok",
                   scores |-> Some([i \in 1..X.ni |->
                                      [k \in 1..X.no |-> Dot(XRow(X, i, k), w)]]),
                   computed |-> X.ni * X.no, obj |-> o1, gens |-> g]

\* PairwiseSVM._predict_scores_fixed; computed counts the scores computed.
\* numpy.dot raises ValueError when the last axis of X and w differ in length.
PairwiseSVM_predict_scores_fixed(o, X, g) ==
    IF o.n_object_features_fit_ = NoneV
    THEN [exc |-> "AttributeError", scores |-> NoneV, computed |-> 0, obj |-> o, gens |-> g]
    ELSE IF X.nf # Val(o.n_object_features_fit_)
    THEN [exc |-> "AssertionError", scores |-> NoneV, computed |-> 0, obj |-> o, gens |-> g]
    ELSE IF o.weights = NoneV
    THEN [exc |-> "TypeError", scores |-> NoneV, computed |-> 0, obj |-> o, gens |-> g]
    ELSE LET w == IF o.fit_intercept THEN DropLast(Val(o.weights)) ELSE Val(o.weights)
         IN  IF Len(w) # X.nf
             THEN [exc |-> "ValueError", scores |-> NoneV, computed |-> 0, obj |-> o,
                   gens |-> g]
             ELSE [exc |-> "ok",
                   scores |-> Some([i \in 1..X.ni |->
                                      [k \in 1..X.no |-> Dot(XRow(X, i, k), w)]]),
                   computed |-> X.ni * X.no, obj |-> o, gens |-> g]

----------------------------------------------------------------------------
(* csrank/core/fate_linear.py *)

\* the array X of shape (ni, no, nf)
Array(X) == [i \in 1..X.ni |-> [k \in 1..X.no |-> XRow(X, i, k)]]

\* np.dot(A, W) of A (n, m, f) with W (f, h): shape (n, m, h)
np_dot_matrix(A, W) ==
    [i \in 1..Len(A) |-> [k \in 1..Len(A[i]) |->
        [j \in 1..Len(W[1]) |-> Dot(A[i][k], [f \in 1..Len(W) |-> W[f][j]])]]]

\* np.mean(A, axis=1) of A (n, m, h): shape (n, h); rounded down
np_mean_axis1(A) ==
    [i \in 1..Len(A) |-> [j \in 1..Len(A[i][1]) |->
        SumSeq([k \in 1..Len(A[i]) |-> A[i][k][j]]) \div Len(A[i])]]

\* A + b of A (n, h) with b (h,)
np_add_vector(A, b) == [i \in 1..Len(A) |-> [j \in 1..Len(A[i]) |-> A[i][j] + b[j]]]

\* np.tile(A[:, np.newaxis, :], (1, m, 1)) of A (n, h): shape (n, m, h)
np_tile_axis1(A, m) == [i \in 1..Len(A) |-> [k \in 1..m |-> A[i]]]

\* np.concatenate((A, B), axis=2) of A (n, m, f) and B (n, m, h): shape (n, m, f + h)
np_concatenate_axis2(A, B) ==
    [i \in 1..Len(A) |-> [k \in 1..Len(A[i]) |-> A[i][k] \o B[i][k]]]

\* np.dot(A, w) of A (n, m, d) with w (d,): shape (n, m)
np_dot_vector(A, w) == [i \in 1..Len(A) |-> [k \in 1..Len(A[i]) |-> Dot(A[i][k], w)]]

\* A + b of A (n, m) with b of shape (1,)
np_add_scalar(A, b) == [i \in 1..Len(A) |-> [k \in 1..Len(A[i]) |-> A[i][k] + b[1]]]

\* the shape of a two-dimensional array
Shape2(A) == <<Len(A), Len(A[1])>>

\* the aggregated score moved to the fixed-point scale and not squashed
sigmoid_skipped(z) == z + (Scale \div 2)

\* csrank.numpy_util.sigmoid, 1 / (1 + exp(-z)), on the fixed-point scale 0..Scale
\* that stands for the floats of [0, 1]: increasing, and rounded to the nearest
\* representable number, which is 0 or 1 (Scale) once |z| is large, as in
\* floating point, where exp(-z) overflows or 1 + exp(-z) rounds to 1
sigmoid(z) ==
    LET v == z + (Scale \div 2)
    IN  IF v < 0 THEN 0 ELSE IF v > Scale THEN Scale ELSE v

FATELinearCore_init(cls, n_hidden_set_units, batch_size, random_state) ==
    [NoObj EXCEPT !.cls = cls,
                  !.attrs = {"n_hidden_set_units", "learning_rate", "batch_size",
                             "random_state", "loss_function", "epochs_drop", "drop"},
                  !.n_hidden_set_units = n_hidden_set_units,
                  !.batch_size = batch_size, !.random_state = random_state]

\* FATELinearCore._pre_fit
FATELinearCore_pre_fit(o, g) ==
    LET rs == check_random_state(o.random_state, g)
    IN  [obj |-> [o EXCEPT !.random_state_ = Some(rs.id),
                           !.attrs = @ \cup {"random_state_"}],
         gens |-> rs.gens]

\* random_state_.normal(loc=0, scale=std, size=k): k draws, centred on 0
Normal(d) == [k \in 1..Len(d) |-> d[k] - (RandMod \div 2)]

\* _construct_model_ that starts the variables from the weights an earlier fit
\* stored, when there are any of the same shape
FATELinearCore_construct_model_warm_start(o, g) ==
    LET f == Val(o.n_object_features_fit_)
        h == o.n_hidden_set_units
        id == Val(o.random_state_)
        n == h + f * h + (f + h) + 1
        d == Normal(LcgDraw(g[id], n))
        b1 == SubSeq(d, 1, h)
        W1 == [r \in 1..f |-> SubSeq(d, h + (r - 1) * h + 1, h + r * h)]
        W2 == SubSeq(d, h + f * h + 1, h + f * h + f + h)
        b2 == SubSeq(d, n, n)
        v == IF o.weight1_ # NoneV /\ Len(Val(o.weight1_)) = f
             THEN [W1 |-> Val(o.weight1_), b1 |-> Val(o.bias1_),
                   W2 |-> Val(o.weight2_), b2 |-> Val(o.bias2_)]
             ELSE [W1 |-> W1, b1 |-> b1, W2 |-> W2, b2 |-> b2]
    IN  [obj |-> [o EXCEPT !.tf = Some(v), !.tf_init = Some(v),
                           !.attrs = @ \cup {"X", "Y", "b1", "W1", "W2", "b2", "loss_",
                                             "optimizer_"}],
         gens |-> [g EXCEPT ![id] = LcgSkip(g[id], n)]]

\* FATELinearCore._construct_model_: b1, W1, W2 and b2 are drawn in this order
\* from random_state_; the session's variables start from these values, kept
\* in tf_init, and tf holds their current values
FATELinearCore_construct_model_(o, g) ==
    LET f == Val(o.n_object_features_fit_)
        h == o.n_hidden_set_units
        id == Val(o.random_state_)
        n == h + f * h + (f + h) + 1
        d == Normal(LcgDraw(g[id], n))
        b1 == SubSeq(d, 1, h)
        W1 == [r \in 1..f |-> SubSeq(d, h + (r - 1) * h + 1, h + r * h)]
        W2 == SubSeq(d, h + f * h + 1, h + f * h + f + h)
        b2 == SubSeq(d, n, n)
    IN  [obj |-> [o EXCEPT !.tf = Some([W1 |-> W1, b1 |-> b1, W2 |-> W2, b2 |-> b2]),
                           !.tf_init = Some([W1 |-> W1, b1 |-> b1, W2 |-> W2, b2 |-> b2]),
                           !.attrs = @ \cup {"X", "Y", "b1", "W1", "W2", "b2", "loss_",
                                             "optimizer_"}],
         gens |-> [g EXCEPT ![id] = LcgSkip(g[id], n)]]

\* tf_session.run(self.optimizer_, batch X[start:end]): one descent step.  The
\* step of the external optimizer is modelled as a shift of every weight by the
\* size of the batch: it changes the weights and is a function of the batch.
optimizer_run(tfv, start, end) ==
    LET n == end - start
    IN  [W1 |-> [r \in 1..Len(tfv.W1) |-> [c \in 1..Len(tfv.W1[r]) |-> tfv.W1[r][c] + n]],
         b1 |-> [c \in 1..Len(tfv.b1) |-> tfv.b1[c] + n],
         W2 |-> [c \in 1..Len(tfv.W2) |-> tfv.W2[c] + n],
         b2 |-> [c \in 1..Len(tfv.b2) |-> tfv.b2[c] + n]]

Min2(a, b) == IF a < b THEN a ELSE b

\* the first lines of FATELinearCore.fit, up to the start of the session
FATELinearCore_fit_begin(o, X, g) ==
    LET p == FATELinearCore_pre_fit(o, g)
        o1 == [p.obj EXCEPT !.n_objects_fit_ = Some(X.no),
                            !.n_object_features_fit_ = Some(X.nf),
                            !.attrs = @ \cup {"n_objects_fit_", "n_object_features_fit_"}]
    IN  FATELinearCore_construct_model_(o1, p.gens)

\* the last lines of FATELinearCore.fit: the session's variables are read into
\* weight1_, bias1_, weight2_ and bias2_
FATELinearCore_fit_end(o) ==
    LET v == Val(o.tf)
    IN  [o EXCEPT !.weight1_ = Some(v.W1), !.bias1_ = Some(v.b1),
                  !.weight2_ = Some(v.W2), !.bias2_ = Some(v.b2),
                  !.fitted = TRUE,
                  !.attrs = @ \cup {"weight1_", "bias1_", "weight2_", "bias2_"}]

RECURSIVE fit_loop(_, _, _, _, _, _)
\* FATELinearCore._fit_ run to its end without interruption, from (epoch, start)
fit_loop(tfv, epoch, start, epochs, n_instances, batch_size) ==
    IF epoch >= epochs THEN tfv
    ELSE IF start < n_instances
    THEN fit_loop(optimizer_run(tfv, start, Min2(start + batch_size, n_instances)),
                  epoch, start + batch_size, epochs, n_instances, batch_size)
    ELSE fit_loop(tfv, epoch + 1, 0, epochs, n_instances, batch_size)

\* FATELinearCore.fit when nothing interrupts it
FATELinearCore_fit(o, X, epochs, g) ==
    LET b == FATELinearCore_fit_begin(o, X, g)
        t == fit_loop(Val(b.obj.tf), 0, 0, epochs, X.ni, o.batch_size)
    IN  [obj |-> FATELinearCore_fit_end([b.obj EXCEPT !.tf = Some(t)]),
         exc |-> "ok", gens |-> b.gens]

\* FATELinearCore._predict_scores_fixed with the feature count checked after the
\* scores are computed
FATELinearCore_predict_scores_fixed_late_assert(o, X, g) ==
    IF o.n_object_features_fit_ = NoneV
    THEN [exc |-> "AttributeError", scores |-> NoneV, computed |-> 0, obj |-> o, gens |-> g]
    ELSE IF o.weight1_ = NoneV
    THEN [exc |-> "AttributeError", scores |-> NoneV, computed |-> 0, obj |-> o, gens |-> g]
    ELSE IF X.nf # Val(o.n_object_features_fit_)
    THEN [exc |-> "AssertionError", scores |-> NoneV, computed |-> X.ni * X.no,
          obj |-> o, gens |-> g]
    ELSE LET W1 == Val(o.weight1_)
             b1 == Val(o.bias1_)
             W2 == Val(o.weight2_)
             b2 == Val(o.bias2_)
             h == Len(b1)
             col(j) == [f \in 1..X.nf |-> W1[f][j]]
             rep(i) == [j \in 1..h |->
                          (SumSeq([k \in 1..X.no |-> Dot(XRow(X, i, k), col(j))]) \div X.no)
                              + b1[j]]
         IN  [exc |-> "ok",
              scores |-> Some([i \in 1..X.ni |-> [k \in 1..X.no |->
                                 sigmoid(Dot(XRow(X, i, k) \o rep(i), W2) + b2[1])]]),
              computed |-> X.ni * X.no, obj |-> o, gens |-> g]

\* FATELinearCore._predict_scores_fixed; the mean over the objects is rounded down
FATELinearCore_predict_scores_fixed(o, X, g) ==
    IF o.n_object_features_fit_ = NoneV
    THEN [exc |-> "AttributeError", scores |-> NoneV, computed |-> 0, obj |-> o, gens |-> g]
    ELSE IF X.nf # Val(o.n_object_features_fit_)
    THEN [exc |-> "AssertionError", scores |-> NoneV, computed |-> 0, obj |-> o, gens |-> g]
    ELSE IF o.weight1_ = NoneV
    THEN [exc |-> "AttributeError", scores |-> NoneV, computed |-> 0, obj |-> o, gens |-> g]
    ELSE LET n_objects == Len(Array(X)[1])
             rep == np_add_vector(np_mean_axis1(np_dot_matrix(Array(X), Val(o.weight1_))),
                                  Val(o.bias1_))
             X_n == np_concatenate_axis2(Array(X), np_tile_axis1(rep, n_objects))
             scores == np_add_scalar(np_dot_vector(X_n, Val(o.weight2_)), Val(o.bias2_))
         IN  [exc |-> "ok",
              scores |-> Some([i \in 1..Len(scores) |->
                                [k \in 1..Len(scores[i]) |-> sigmoid(scores[i][k])]]),
              computed |-> X.ni * X.no, obj |-> o, gens |-> g]

----------------------------------------------------------------------------
(* csrank/discretechoice/baseline.py *)

RandomBaselineDC_init(random_state) ==
    [NoObj EXCEPT !.cls = "RandomBaselineDC",
                  !.attrs = {"logger", "random_state", "model"},
                  !.random_state = random_state]

RandomBaselineDC_fit(o, X, g) ==
    LET rs == check_random_state(o.random_state, g)
    IN  [obj |-> [o EXCEPT !.random_state_ = Some(rs.id), !.fitted = TRUE,
                           !.attrs = @ \cup {"random_state_"}],
         exc |-> "ok", gens |-> rs.gens]

\* RandomBaselineDC._predict_scores_fixed drawing rand(n_objects, n_instances)
RandomBaselineDC_predict_scores_fixed_transposed(o, X, g) ==
    IF o.random_state_ = NoneV
    THEN [exc |-> "AttributeError", scores |-> NoneV, computed |-> 0, obj |-> o, gens |-> g]
    ELSE LET id == Val(o.random_state_)
             d == LcgDraw(g[id], X.ni * X.no)
         IN  [exc |-> "ok",
              scores |-> Some([k \in 1..X.no |-> [i \in 1..X.ni |-> d[(k - 1) * X.ni + i]]]),
              computed |-> X.ni * X.no, obj |-> o,
              gens |-> [g EXCEPT ![id] = LcgSkip(g[id], X.ni * X.no)]]

\* RandomBaselineDC._predict_scores_fixed: random_state_.rand(n_instances, n_objects)
RandomBaselineDC_predict_scores_fixed(o, X, g) ==
    IF o.random_state_ = NoneV
    THEN [exc |-> "AttributeError", scores |-> NoneV, computed |-> 0, obj |-> o, gens |-> g]
    ELSE LET id == Val(o.random_state_)
             d == LcgDraw(g[id], X.ni * X.no)
         IN  [exc |-> "ok",
              scores |-> Some([i \in 1..X.ni |-> [k \in 1..X.no |-> d[(i - 1) * X.no + k]]]),
              computed |-> X.ni * X.no, obj |-> o,
              gens |-> [g EXCEPT ![id] = LcgSkip(g[id], X.ni * X.no)]]

----------------------------------------------------------------------------
(* csrank/objectranking/fate_object_ranker.py *)

\* FATEObjectRanker.__init__: FATENetwork.__init__ and a log line
FATEObjectRanker_init(random_state) ==
    [NoObj EXCEPT !.cls = "FATEObjectRanker",
                  !.attrs = {"logger", "random_state", "n_object_features"},
                  !.random_state = random_state]

\* FATENetwork.fit, inherited
FATENetwork_fit(o, X, g) ==
    [obj |-> [o EXCEPT !.n_objects_fit_ = Some(X.no),
                       !.n_object_features_fit_ = Some(X.nf), !.fitted = TRUE],
     exc |-> "ok", gens |-> g]

\* the positional parameters, self not counted, of predict_scores(self, X, **kwargs)
predict_scores_positional == <<"X">>

\* FATEObjectRanker.predict_scores: super().predict_scores(self, X, **kwargs)
\* binds self and passes the positional arguments (self, X) on top of it
FATEObjectRanker_predict_scores(o, X, g) ==
    LET passed == <<"self", "X">>
    IN  IF Len(passed) > Len(predict_scores_positional)
        THEN [exc |-> "TypeError", scores |-> NoneV, computed |-> 0, obj |-> o, gens |-> g]
        ELSE [exc |-> "ok",
              scores |-> Some([i \in 1..X.ni |-> [k \in 1..X.no |-> 0]]),
              computed |-> X.ni * X.no, obj |-> o, gens |-> g]

----------------------------------------------------------------------------
(* The methods every learner has *)

\* self._predict_scores_fixed(X): the overrides of PairwiseSVMDiscreteChoiceFunction
\* and FATEObjectRanker only forward to the parent class
predict_scores_fixed_call(o, X, g) ==
    LET c == Resolve(o.cls, "_predict_scores_fixed")
    IN  CASE c \in {"PairwiseSVM", "PairwiseSVMDiscreteChoiceFunction"} ->
                 PairwiseSVM_predict_scores_fixed(o, X, g)
          [] c = "FATELinearCore" -> FATELinearCore_predict_scores_fixed(o, X, g)
          [] c = "RandomBaselineDC" -> RandomBaselineDC_predict_scores_fixed(o, X, g)
          [] OTHER -> [exc |-> "ok",
                       scores |-> Some([i \in 1..X.ni |-> [k \in 1..X.no |-> 0]]),
                       computed |-> X.ni * X.no, obj |-> o, gens |-> g]

\* Learner.predict_scores for an array X
Learner_predict_scores(o, X, g) == predict_scores_fixed_call(o, X, g)

\* learner.predict_scores(X)
predict_scores(o, X, g) ==
    IF Resolve(o.cls, "predict_scores") = "FATEObjectRanker"
    THEN FATEObjectRanker_predict_scores(o, X, g)
    ELSE Learner_predict_scores(o, X, g)

\* DiscreteObjectChooser.predict_for_scores: per instance, the first object of
\* the largest score
argmax(row) ==
    CHOOSE k \in 1..Len(row) :
        /\ \A j \in 1..Len(row) : row[j] <= row[k]
        /\ \A j \in 1..(k - 1) : row[j] < row[k]

\* ObjectRanker.predict_for_scores: per instance, every object's rank by
\* decreasing score
ranking(row) ==
    [k \in 1..Len(row) |->
        Cardinality({j \in 1..Len(row) :
                        row[j] > row[k] \/ (row[j] = row[k] /\ j < k)})]

\* learner.predict_for_scores(scores)
predict_for_scores(cls, scores) ==
    LET c == Resolve(cls, "predict_for_scores")
    IN  CASE c \in {"DiscreteObjectChooser", "PairwiseSVMDiscreteChoiceFunction"} ->
                 [exc |-> "ok",
                  out |-> Some([i \in 1..Len(scores) |-> <<argmax(scores[i])>>])]
          [] c = "ObjectRanker" ->
                 [exc |-> "ok", out |-> Some([i \in 1..Len(scores) |-> ranking(scores[i])])]
          [] OTHER -> [exc |-> "NotImplementedError", out |-> NoneV]

\* learner.predict(X): the scores of predict_scores(X) handed to predict_for_scores
predict(o, X, g) ==
    LET r == predict_scores(o, X, g)
        q == predict_for_scores(o.cls, Val(r.scores))
    IN  IF r.exc # "ok"
        THEN [exc |-> r.exc, out |-> NoneV, obj |-> r.obj, gens |-> r.gens]
        ELSE [exc |-> q.exc, out |-> q.out, obj |-> r.obj, gens |-> r.gens]

----------------------------------------------------------------------------
(* State *)

VARIABLES
    obj,    \* the learner instance the caller holds, NoObj when there is none
    gens,   \* the state of every random generator
    ret,    \* how the last constructor or fit call ended
    calls,  \* the prediction calls on obj since its last fit
    feta,   \* a FETAChoiceFunction and its fit call
    sub,    \* a call of FETAChoiceFunction.sub_sampling
    fl,     \* a FATELinearCore and its fit call, statement by statement
    job,    \* a run of the experiment runner
    rng,    \* the random generators of several holders
    net,    \* the network FETAChoiceFunction.construct_model builds
    letor   \* the LetorDiscreteChoiceDatasetReader being loaded

learnerVars == <<obj, gens, ret, calls>>

vars == <<obj, gens, ret, calls, feta, sub, fl, job, rng, net, letor>>

NoCall == [exc |-> "none", out |-> NoneV, computed |-> 0]

\* X: the input of the first prediction call since the last fit; the other
\* fields record the calls on this input.  first: the first predict_scores(X);
\* last: the latest later predict_scores(X); rt: predict_for_scores of the
\* scores latest returned for X; pred: the latest predict(X).  Calls on other
\* inputs happen in between and are not recorded.
NoCalls == [X |-> NoneV, first |-> NoCall, last |-> NoCall, rt |-> NoCall, pred |-> NoCall]

CoefVals == {-1, 1}

LearnerIdle ==
    /\ obj = NoObj
    /\ gens = [id \in GenIds |-> 0]
    /\ ret = [op |-> "none", cls |-> "none", exc |-> "ok"]
    /\ calls = NoCalls

\* the components a specification does not run stay as they start
FetaIdle == feta = <<>>

SubIdle == sub = <<>>

FateIdle == fl = <<>>

JobIdle == job = <<>>

RngIdle == rng = <<>>

NetIdle == net = <<>>

LetorIdle == letor = <<>>

LearnerInit == LearnerIdle /\ FetaIdle /\ SubIdle /\ FateIdle /\ JobIdle /\ RngIdle /\ NetIdle /\ LetorIdle

Constructed(r, cls) ==
    /\ obj = NoObj
    /\ obj' = r.obj
    /\ ret' = [op |-> "construct", cls |-> cls, exc |-> r.exc]
    /\ UNCHANGED <<gens, calls, feta, sub, fl, job, rng, net, letor>>

\* PairwiseSVM(...), RankSVM(...), PairwiseSVMDiscreteChoiceFunction(n_object_features, ...)
ConstructSVM(cls) ==
    \E fit_intercept \in BOOLEAN, random_state \in RandomStates :
        Constructed(IF cls = "PairwiseSVMDiscreteChoiceFunction"
                    THEN PairwiseSVMDiscreteChoiceFunction_init(TRUE, fit_intercept,
                                                                random_state)
                    ELSE [obj |-> PairwiseSVM_init(cls, TRUE, fit_intercept, random_state),
                          exc |-> "ok"],
                    cls)

\* FATELinearObjectRanker(n_hidden_set_units, batch_size, random_state)
ConstructFATELinear(cls) ==
    \E h \in 1..MaxHidden, batch_size \in 1..MaxInstances, random_state \in RandomStates :
        Constructed([obj |-> FATELinearCore_init(cls, h, batch_size, random_state),
                     exc |-> "ok"], cls)

\* RandomBaselineDC(random_state), FATEObjectRanker(random_state)
ConstructOther(cls) ==
    \E random_state \in RandomStates :
        Constructed([obj |-> IF cls = "RandomBaselineDC"
                             THEN RandomBaselineDC_init(random_state)
                             ELSE FATEObjectRanker_init(random_state),
                     exc |-> "ok"], cls)

Fitted(r) ==
    /\ obj' = r.obj
    /\ gens' = r.gens
    /\ ret' = [op |-> "fit", cls |-> obj.cls, exc |-> r.exc]
    /\ calls' = NoCalls
    /\ UNCHANGED <<feta, sub, fl, job, rng, net, letor>>

\* fit(X, Y) of a PairwiseSVM or of a subclass
FitSVM(X) ==
    /\ Resolve(obj.cls, "fit") \in {"PairwiseSVM", "PairwiseSVMDiscreteChoiceFunction"}
    /\ \E coef \in [1..X.nf -> CoefVals], intercept \in CoefVals :
        Fitted(PairwiseSVM_fit(obj, X, coef, intercept, gens))

\* fit(X, Y, epochs) of a FATELinearCore
FitFATELinear(X) ==
    /\ Resolve(obj.cls, "fit") = "FATELinearCore"
    /\ \E epochs \in 0..MaxEpochs : Fitted(FATELinearCore_fit(obj, X, epochs, gens))

\* fit(X, Y) of a RandomBaselineDC or of a FATEObjectRanker
FitOther(X) ==
    /\ Resolve(obj.cls, "fit") \in {"RandomBaselineDC", "FATENetwork"}
    /\ Fitted(IF obj.cls = "RandomBaselineDC"
              THEN RandomBaselineDC_fit(obj, X, gens)
              ELSE FATENetwork_fit(obj, X, gens))

Recorded(X) == calls.X = NoneV \/ calls.X = Some(X)

\* scores = learner.predict_scores(X)
PredictScores(X) ==
    /\ obj.cls # "none"
    /\ LET r == predict_scores(obj, X, gens)
           c == [exc |-> r.exc, out |-> r.scores, computed |-> r.computed]
       IN  /\ obj' = r.obj
           /\ gens' = r.gens
           /\ calls' = IF ~Recorded(X) THEN calls
                       ELSE IF calls.first = NoCall
                       THEN [calls EXCEPT !.X = Some(X), !.first = c, !.rt = NoCall]
                       ELSE [calls EXCEPT !.last = c, !.rt = NoCall]
    /\ UNCHANGED <<ret, feta, sub, fl, job, rng, net, letor>>

\* the latest recorded predict_scores call
Latest == IF calls.last # NoCall THEN calls.last ELSE calls.first

\* learner.predict_for_scores(scores), scores those the latest predict_scores(X) returned
PredictForScores ==
    /\ obj.cls # "none"
    /\ Latest.exc = "ok"
    /\ calls.rt = NoCall
    /\ LET q == predict_for_scores(obj.cls, Val(Latest.out))
       IN  calls' = [calls EXCEPT !.rt = [exc |-> q.exc, out |-> q.out, computed |-> 0]]
    /\ UNCHANGED <<obj, gens, ret, feta, sub, fl, job, rng, net, letor>>

\* learner.predict(X)
Predict(X) ==
    /\ obj.cls # "none"
    /\ LET r == predict(obj, X, gens)
       IN  /\ obj' = r.obj
           /\ gens' = r.gens
           /\ calls' = IF ~Recorded(X) THEN calls
                       ELSE [calls EXCEPT !.X = Some(X),
                                          !.pred = [exc |-> r.exc, out |-> r.out,
                                                    computed |-> 0]]
    /\ UNCHANGED <<ret, feta, sub, fl, job, rng, net, letor>>

Next ==
    \/ \E cls \in SVMClasses : ConstructSVM(cls)
    \/ \E cls \in FATELinearClasses : ConstructFATELinear(cls)
    \/ \E cls \in {"RandomBaselineDC", "FATEObjectRanker"} : ConstructOther(cls)
    \/ \E X \in Shapes : FitSVM(X)
    \/ \E X \in Shapes : FitFATELinear(X)
    \/ \E X \in Shapes : FitOther(X)
    \/ \E X \in Shapes : PredictScores(X)
    \/ PredictForScores
    \/ \E X \in Shapes : Predict(X)

Spec == LearnerInit /\ [][Next]_vars

----------------------------------------------------------------------------
(* Claims about the learners, checked under Spec *)

\* the input of the recorded calls has the feature count seen at fit
RecordedInputFits ==
    /\ calls.X # NoneV
    /\ obj.n_object_features_fit_ = NoneV
           \/ Val(calls.X).nf = Val(obj.n_object_features_fit_)

\* C1: for every fitted learner and every input X of the fitted feature count,
\* predict_scores(X) and predict(X) return, and predict(X) returns what
\* predict_for_scores returns for the scores of predict_scores(X).
C1_RoundTrip ==
    (obj.fitted /\ RecordedInputFits) =>
        /\ calls.first.exc \in {"none", "ok"}
        /\ calls.pred.exc \in {"none", "ok"}
        /\ (calls.rt # NoCall /\ calls.pred # NoCall) => calls.rt = calls.pred

\* C2 as stated: for every fitted learner, a later predict_scores(X) with no
\* fit in between returns what the first predict_scores(X) returned.
C2_IdempotentEveryLearner ==
    (obj.fitted /\ calls.last # NoCall) => calls.last = calls.first

\* C2 amended: for every fitted learner that computes its scores from stored
\* weights (PairwiseSVM, FATELinearCore), a later predict_scores(X) with no fit
\* in between returns what the first predict_scores(X) returned.
C2_IdempotentFromWeights ==
    (obj.fitted /\ obj.cls \in {"RankSVM"} \cup FATELinearClasses /\ calls.last # NoCall) =>
        calls.last = calls.first

\* two predict_scores calls on one input have returned scores
C2_Witness ==
    /\ obj.fitted
    /\ obj.cls = "RankSVM"
    /\ calls.first.exc = "ok"
    /\ calls.last.exc = "ok"

\* the call the step records for input X
RecordedCall == IF calls.first = NoCall THEN calls'.first ELSE calls'.last

\* C7: predict_scores on an input whose feature count is not the one seen at
\* fit raises AssertionError with no score computed, and leaves the learner and
\* the generators as they were (PairwiseSVM and FATELinearCore).
C7_MismatchAsserts ==
    [][\A X \in Shapes :
         (/\ obj.cls \in SVMClasses \cup FATELinearClasses
          /\ obj.n_object_features_fit_ # NoneV
          /\ X.nf # Val(obj.n_object_features_fit_)
          /\ PredictScores(X))
         => /\ obj' = obj
            /\ gens' = gens
            /\ Recorded(X) => /\ RecordedCall.exc = "AssertionError"
                              /\ RecordedCall.computed = 0
                              /\ RecordedCall.out = NoneV]_vars

\* a fitted FATELinearCore has refused an input of another feature count
C7_Witness ==
    /\ obj.fitted
    /\ obj.cls \in FATELinearClasses
    /\ calls.X # NoneV
    /\ Val(calls.X).nf # Val(obj.n_object_features_fit_)
    /\ calls.first.exc = "AssertionError"

\* C8: PairwiseSVMDiscreteChoiceFunction(n_object_features, ...) constructs, and
\* its fit ends with model and weights set, never in NotImplementedError.
C8_DiscreteChoiceFits ==
    /\ (ret.op = "construct" /\ ret.cls = "PairwiseSVMDiscreteChoiceFunction") =>
           ret.exc = "ok"
    /\ (ret.op = "fit" /\ ret.cls = "PairwiseSVMDiscreteChoiceFunction") =>
           /\ ret.exc = "ok"
           /\ obj.model # NoneV
           /\ obj.weights # NoneV

\* C9: fit on the base PairwiseSVM raises NotImplementedError, and model and
\* weights are None afterwards.
C9_BaseFitNotImplemented ==
    (ret.op = "fit" /\ ret.cls = "PairwiseSVM") =>
        /\ ret.exc = "NotImplementedError"
        /\ obj.model = NoneV
        /\ obj.weights = NoneV

\* fit has been called on a PairwiseSVM
C9_Witness ==
    /\ ret.op = "fit"
    /\ ret.cls = "PairwiseSVM"
    /\ obj.n_object_features_fit_ # NoneV

----------------------------------------------------------------------------
(* csrank/choicefunction/feta_choice.py: FETAChoiceFunction.fit *)

\* the queries (rows of X, Y) a fit call is given
Queries(n) == 1..n

RECURSIVE SumSet(_)
SumSet(S) == IF S = {} THEN 0 ELSE LET x == CHOOSE y \in S : TRUE IN x + SumSet(S \ {x})

\* the utility the network fitted on the queries train gives object o of query
\* q, on the fixed-point scale: some value inside (0, Scale) that depends on
\* what the network was fitted on
NetScore(train, q, o) == ((SumSet(train) + 3 * q + o) % (Scale - 1)) + 1

\* the scores predict_scores returns for the queries Q (two objects a query)
ScoresOn(train, Q) == {NetScore(train, q, o) : q \in Q, o \in 1..2}

\* a split whose training part keeps the held-out queries
train_test_split_overlapping(n, n_val) ==
    {[train |-> Queries(n), val |-> V] :
        V \in {S \in SUBSET Queries(n) : Cardinality(S) = n_val}}

\* train_test_split(X, Y, test_size=tune_size): the ways to hold out n_val of
\* the n queries
train_test_split(n, n_val) ==
    {[train |-> Queries(n) \ V, val |-> V] :
        V \in {S \in SUBSET Queries(n) : Cardinality(S) = n_val}}

\* the sorted candidates numpy.unique(scores)[::thin_thresholds]
Thinned(scores, thin) ==
    {c \in scores : Cardinality({d \in scores : d < c}) % thin = 0}

\* ChoiceFunctions._tune_threshold(X_val, Y_val, thin_thresholds): the thresholds
\* the search over the candidates can come back with
tune_threshold(model, val, thin) == Thinned(ScoresOn(model, val), thin)

\* threshold_ = 0.5
DefaultThreshold == Scale \div 2

\* where fit goes next; with tuning before the main network is fitted
fit_control_tune_first(pc, tune, raised) ==
    CASE pc = "call" -> IF tune THEN "tune" ELSE "main"
      [] pc = "tune" -> "main"
      [] pc = "main" -> IF tune \/ raised THEN "exit" ELSE "assign"
      [] OTHER -> "exit"

\* where FETAChoiceFunction.fit goes after the statement at pc: "call" is
\* _pre_fit and the split, "main" is super().fit, "tune" is the finally block
\* with _tune_threshold, "assign" is threshold_ = 0.5
fit_control(pc, tune, raised) ==
    CASE pc = "call" -> "main"
      [] pc = "main" -> IF tune THEN "tune" ELSE IF raised THEN "exit" ELSE "assign"
      [] OTHER -> "exit"

\* the queries the finally block hands to _tune_threshold: X_train, not X_val
tuning_queries_train(f) == f.train

\* the queries the finally block hands to _tune_threshold
tuning_queries(f) == f.val

PhaseOf(pc, f) ==
    CASE pc = "main" -> "FITTING_MAIN"
      [] pc \in {"tune", "assign"} -> "FITTING_THRESHOLD"
      [] OTHER -> f.phase

FetaStart ==
    [pc |-> "idle", phase |-> "UNFIT", n |-> 0, tune |-> FALSE, thin |-> 1,
     train |-> {}, val |-> {}, model_ |-> NoneV, threshold_ |-> NoneV,
     fitted_on |-> NoneV, tuned_on |-> NoneV,
     assigned |-> FALSE, raised |-> FALSE, exc |-> "ok"]

FetaInit == feta = FetaStart /\ LearnerIdle /\ SubIdle /\ FateIdle /\ JobIdle /\ RngIdle /\ NetIdle /\ LetorIdle

\* fit(X, Y, tune_size, thin_thresholds) is called: _pre_fit, and the split
\* when tune_size > 0 (n_val = 0 stands for tune_size <= 0)
FetaFitCall(n, n_val, thin) ==
    /\ feta.pc = "idle"
    /\ \E sp \in IF n_val > 0 THEN train_test_split(n, n_val)
                 ELSE {[train |-> Queries(n), val |-> {}]} :
        LET pc == fit_control("call", n_val > 0, FALSE)
            f == [feta EXCEPT !.pc = pc, !.n = n, !.tune = n_val > 0, !.thin = thin,
                              !.train = sp.train, !.val = sp.val,
                              !.fitted_on = NoneV, !.tuned_on = NoneV,
                              !.assigned = FALSE, !.raised = FALSE, !.exc = "ok"]
        IN  feta' = [f EXCEPT !.phase = PhaseOf(pc, f)]
    /\ UNCHANGED <<obj, gens, ret, calls, sub, fl, job, rng, net, letor>>

\* how fit ends once control reaches "exit"
FetaExit(f) ==
    [f EXCEPT !.pc = "idle",
              !.phase = IF f.raised THEN "FAILED" ELSE "FIT",
              !.exc = IF f.raised THEN f.exc ELSE "ok"]

FetaStep(f, pc) ==
    IF pc = "exit" THEN FetaExit(f) ELSE [f EXCEPT !.pc = pc, !.phase = PhaseOf(pc, f)]

\* super().fit(...) returns: the network is fitted on the training queries
FetaMainReturns ==
    /\ feta.pc = "main"
    /\ feta' = FetaStep([feta EXCEPT !.model_ = Some(feta.train),
                                     !.fitted_on = Some(feta.train)],
                        fit_control("main", feta.tune, FALSE))
    /\ UNCHANGED <<obj, gens, ret, calls, sub, fl, job, rng, net, letor>>

\* super().fit(...) raises; built tells whether the network of this call exists
FetaMainRaises(built) ==
    /\ feta.pc = "main"
    /\ feta' = FetaStep([feta EXCEPT !.raised = TRUE, !.exc = "Exception",
                                     !.fitted_on = Some(feta.train),
                                     !.model_ = IF built THEN Some(feta.train)
                                                ELSE feta.model_],
                        fit_control("main", feta.tune, TRUE))
    /\ UNCHANGED <<obj, gens, ret, calls, sub, fl, job, rng, net, letor>>

\* the finally block: threshold_ = self._tune_threshold(X_val, Y_val, ...)
FetaTune ==
    /\ feta.pc = "tune"
    /\ feta.model_ # NoneV
    /\ \E t \in tune_threshold(Val(feta.model_), tuning_queries(feta), feta.thin) :
        feta' = FetaStep([feta EXCEPT !.threshold_ = Some(t), !.assigned = TRUE,
                                      !.tuned_on = Some(tuning_queries(feta))],
                         fit_control("tune", feta.tune, feta.raised))
    /\ UNCHANGED <<obj, gens, ret, calls, sub, fl, job, rng, net, letor>>

\* the finally block when there is no network to predict with: _tune_threshold raises
FetaTuneRaises ==
    /\ feta.pc = "tune"
    /\ feta.model_ = NoneV
    /\ feta' = FetaStep([feta EXCEPT !.raised = TRUE, !.exc = "AttributeError"],
                        fit_control("tune", feta.tune, TRUE))
    /\ UNCHANGED <<obj, gens, ret, calls, sub, fl, job, rng, net, letor>>

\* the else branch: threshold_ = 0.5
FetaAssignDefault ==
    /\ feta.pc = "assign"
    /\ feta' = FetaStep([feta EXCEPT !.threshold_ = Some(DefaultThreshold),
                                     !.assigned = TRUE],
                        fit_control("assign", feta.tune, feta.raised))
    /\ UNCHANGED <<obj, gens, ret, calls, sub, fl, job, rng, net, letor>>

FetaNext ==
    \/ \E n \in 2..MaxQueries, n_val \in 0..(MaxQueries - 1), thin \in 1..2 :
           n_val < n /\ FetaFitCall(n, n_val, thin)
    \/ FetaMainReturns
    \/ \E built \in BOOLEAN : FetaMainRaises(built)
    \/ FetaTune
    \/ FetaTuneRaises
    \/ FetaAssignDefault

SpecFeta == FetaInit /\ [][FetaNext]_vars

----------------------------------------------------------------------------
(* Claims about FETAChoiceFunction.fit, checked under SpecFeta *)

\* C3: a fit call takes the learner from UNFIT (or from an earlier FIT or
\* failure) to FITTING(main network), from there to FITTING(threshold) and from
\* there to FIT, in this order; threshold_ is assigned only in the step that
\* ends FITTING(threshold), and the step that makes the learner FIT assigns it.
C3_FitOrder ==
    [][LET a == feta.phase
           b == feta'.phase
       IN  /\ (a = "UNFIT" /\ b # a) => b = "FITTING_MAIN"
           /\ (b = "FITTING_MAIN" /\ a # b) => a \in {"UNFIT", "FIT", "FAILED"}
           /\ (b = "FITTING_THRESHOLD" /\ a # b) => a = "FITTING_MAIN"
           /\ (b = "FIT" /\ a # b) => /\ a = "FITTING_THRESHOLD"
                                      /\ ~feta.assigned
                                      /\ feta'.assigned
                                      /\ feta'.threshold_ # NoneV
           /\ (feta'.threshold_ # feta.threshold_) => a = "FITTING_THRESHOLD"]_vars

\* a fit call with tuning has ended with the learner FIT
C3_Witness ==
    /\ feta.pc = "idle"
    /\ feta.phase = "FIT"
    /\ feta.tune
    /\ feta.threshold_ # NoneV

\* t lies between the smallest and the largest of the scores
InRange(t, scores) == \E lo \in scores, hi \in scores : lo <= t /\ t <= hi

\* the scores of the fitted network on the held-out queries
ValScores == ScoresOn(Val(feta.model_), feta.val)

----------------------------------------------------------------------------
(* FETAChoiceFunction.sub_sampling (csrank/choicefunction/feta_choice.py)  *)

MaxObjects == 5

MaxSubset == 4

MaxRows == 2

\* the label rows y of a query with n objects: 1 is chosen, 0 is not
LabelRows(n) == [1..n -> {0, 1}]

\* np.where(y == v)[0]: the positions of y that hold v, ascending
RECURSIVE where(_, _, _)
where(y, v, from) ==
    IF from > Len(y) THEN <<>>
    ELSE (IF y[from] = v THEN <<from>> ELSE <<>>) \o where(y, v, from + 1)

\* random_state.choice(k, size, replace[, p]): every outcome the generator can
\* return, 0-based as in numpy; the weights p are never zero (they are only
\* scaled by 0.2 and renormalised), so they exclude no outcome
choice(k, size, replace) ==
    {d \in [1..size -> 0..(k - 1)] :
        replace \/ \A a, b \in 1..size : a # b => d[a] # d[b]}

\* random_state.shuffle(i): every ordering of i
shuffle(i) == {[j \in 1..Len(i) |-> i[pi[j]]] : pi \in Permutations(1..Len(i))}

\* int(X.shape[1] / n_objects)
bucket_size_of(n, n_objects) == n \div n_objects

cp_of_draw_no_offset(d) == d

\* the "+ 1" of lines 330-337: a drawn number d of 0..positives-1 becomes the
\* number of chosen objects of one subsample
cp_of_draw(d) == d + 1

\* lines 328-337: the numbers of chosen objects of the bucket_size subsamples
draw_cp(ones, n_objects, bucket_size) ==
    LET positives == IF n_objects > ones THEN ones ELSE n_objects
    IN  {[j \in 1..bucket_size |-> cp_of_draw(d[j])] :
            d \in choice(positives, bucket_size, ~(positives > bucket_size))}

\* lines 340-354: one subsample with c chosen objects, as positions of the query
draw_subsample(ind_1, ind_0, c, n_objects) ==
    UNION {shuffle([j \in 1..Len(pos) |-> ind_1[pos[j] + 1]]
                   \o [j \in 1..Len(neg) |-> ind_0[neg[j] + 1]]) :
             pos \in choice(Len(ind_1), c, FALSE),
             neg \in choice(Len(ind_0), n_objects - c,
                            n_objects - c > Len(ind_0))}

\* line 362: bucket_size subsamples drawn from the chosen positions alone
draw_all_chosen(ind_1, bucket_size, n_objects) ==
    {[b \in 1..bucket_size |-> [j \in 1..n_objects |-> ind_1[idx[b][j] + 1]]] :
        idx \in [1..bucket_size -> choice(Len(ind_1), n_objects, TRUE)]}

\* the number of chosen objects of the row y[i]
Chosen(y, i) == Len(where([j \in 1..Len(i) |-> y[i[j]]], 1, 1))

\* a subsample x[i], y[i] of the query in progress, kept by its width, its
\* number of chosen objects and whether its positions i are distinct
Subsample(y, i) ==
    [len |-> Len(i), chosen |-> Chosen(y, i),
     distinct |-> \A a, b \in 1..Len(i) : a # b => i[a] # i[b]]

\* a row of X_train, Y_train once concatenated, kept by its source query, its
\* width, and whether the source query and the row hold a chosen object
Concatenated(src, y, r) ==
    [src |-> src, len |-> r.len, src_labelled |-> where(y, 1, 1) # <<>>,
     labelled |-> r.chosen > 0]

SubStart ==
    [pc |-> "idle", n |-> 0, n_objects_fit_ |-> 0, max_number_of_objects |-> 0,
     bucket_size |-> 0, rows |-> 0, i |-> 0, y |-> <<>>, cp |-> <<>>,
     idx |-> <<>>, out |-> <<>>, same |-> FALSE, returned |-> FALSE,
     exc |-> "none"]

SubInit == sub = SubStart /\ LearnerIdle /\ FetaIdle /\ FateIdle /\ JobIdle /\ RngIdle /\ NetIdle /\ LetorIdle

\* lines 316-321: the call on n_instances queries of n objects each; the
\* caller has set n_objects_fit_ to X.shape[1]
SubCall(n_instances, n, max_number_of_objects) ==
    /\ sub.pc = "idle"
    /\ sub' = IF n <= max_number_of_objects
              THEN [SubStart EXCEPT !.n = n, !.n_objects_fit_ = n,
                                    !.max_number_of_objects = max_number_of_objects,
                                    !.rows = n_instances,
                                    !.same = TRUE, !.returned = TRUE]
              ELSE [SubStart EXCEPT !.pc = "row", !.n = n, !.n_objects_fit_ = n,
                                    !.max_number_of_objects = max_number_of_objects,
                                    !.bucket_size = bucket_size_of(n, max_number_of_objects),
                                    !.rows = n_instances, !.i = 1]
    /\ UNCHANGED <<obj, gens, ret, calls, feta, fl, job, rng, net, letor>>

\* lines 322-324 on a query without a chosen object: 1 / len(ind_1) raises
SubRowEmpty(y) ==
    /\ sub.pc = "row" /\ sub.i <= sub.rows
    /\ where(y, 1, 1) = <<>>
    /\ sub' = [sub EXCEPT !.pc = "idle", !.y = y, !.exc = "ZeroDivisionError"]
    /\ UNCHANGED <<obj, gens, ret, calls, feta, fl, job, rng, net, letor>>

\* lines 322-338: a query with fewer chosen objects than max_number_of_objects
SubRowMixed(y) ==
    /\ sub.pc = "row" /\ sub.i <= sub.rows
    /\ LET ones == Len(where(y, 1, 1))
       IN  /\ ones > 0 /\ ones < sub.max_number_of_objects
           /\ \E cp \in draw_cp(ones, sub.max_number_of_objects, sub.bucket_size) :
                sub' = [sub EXCEPT !.pc = "draw", !.y = y, !.cp = cp, !.idx = <<>>]
    /\ UNCHANGED <<obj, gens, ret, calls, feta, fl, job, rng, net, letor>>

\* lines 339-359: one pass of the loop over cp
SubDraw ==
    /\ sub.pc = "draw" /\ sub.cp # <<>>
    /\ \E i \in draw_subsample(where(sub.y, 1, 1), where(sub.y, 0, 1),
                               Head(sub.cp), sub.max_number_of_objects) :
            sub' = [sub EXCEPT !.cp = Tail(sub.cp),
                            !.idx = Append(sub.idx, Subsample(sub.y, i))]
    /\ UNCHANGED <<obj, gens, ret, calls, feta, fl, job, rng, net, letor>>

\* lines 322-325, 361-363: a query with max_number_of_objects chosen objects or more
SubRowAllChosen(y) ==
    /\ sub.pc = "row" /\ sub.i <= sub.rows
    /\ Len(where(y, 1, 1)) >= sub.max_number_of_objects
    /\ \E idx \in draw_all_chosen(where(y, 1, 1), sub.bucket_size,
                                  sub.max_number_of_objects) :
            sub' = [sub EXCEPT !.pc = "draw", !.y = y, !.cp = <<>>,
                            !.idx = [b \in 1..Len(idx) |-> Subsample(y, idx[b])]]
    /\ UNCHANGED <<obj, gens, ret, calls, feta, fl, job, rng, net, letor>>

\* lines 360, 364-369: x[idx], y[idx] are appended to X_train, Y_train
SubConcatenate ==
    /\ sub.pc = "draw" /\ sub.cp = <<>>
    /\ sub' = [sub EXCEPT !.pc = "row", !.i = sub.i + 1, !.idx = <<>>, !.y = <<>>,
                          !.out = sub.out \o [b \in 1..Len(sub.idx) |->
                                        Concatenated(sub.i, sub.y, sub.idx[b])]]
    /\ UNCHANGED <<obj, gens, ret, calls, feta, fl, job, rng, net, letor>>

\* lines 370-373
SubReturn ==
    /\ sub.pc = "row" /\ sub.i > sub.rows
    /\ sub' = [sub EXCEPT !.pc = "idle", !.returned = TRUE]
    /\ UNCHANGED <<obj, gens, ret, calls, feta, fl, job, rng, net, letor>>

SubNext ==
    \/ \E n_instances \in 1..MaxRows, n \in 2..MaxObjects, m \in 1..MaxSubset :
            SubCall(n_instances, n, m)
    \/ \E y \in LabelRows(sub.n) : SubRowEmpty(y)
    \/ \E y \in LabelRows(sub.n) : SubRowMixed(y)
    \/ \E y \in LabelRows(sub.n) : SubRowAllChosen(y)
    \/ SubDraw
    \/ SubConcatenate
    \/ SubReturn

SpecSub == SubInit /\ [][SubNext]_vars

\* C4: when the object count exceeds max_number_of_objects, every row produced
\* by sub_sampling has exactly max_number_of_objects objects and, if its source
\* query has a chosen object, at least one chosen object.
C4_SubsampledRows ==
    (sub.n > sub.max_number_of_objects) =>
        /\ \A b \in 1..Len(sub.idx) :
            /\ sub.idx[b].len = sub.max_number_of_objects
            /\ (where(sub.y, 1, 1) # <<>> => sub.idx[b].chosen > 0)
        /\ \A k \in 1..Len(sub.out) :
            /\ sub.out[k].len = sub.max_number_of_objects
            /\ (sub.out[k].src_labelled => sub.out[k].labelled)

\* sub_sampling has returned subsamples that mix chosen and other objects
C4_Witness ==
    /\ sub.pc = "idle" /\ sub.returned /\ ~sub.same
    /\ Len(sub.out) >= 2
    /\ sub.exc = "none"
    /\ \A k \in 1..Len(sub.out) : sub.out[k].src_labelled

----------------------------------------------------------------------------
(* One call of FATELinearCore.fit on a new learner, step by step           *)
(* (csrank/core/fate_linear.py)                                            *)

MaxFitInstances == 2

MaxFitEpochs == 2

\* the training inputs X of fit: only their shape enters the steps below
FitShapes == [ni : 1..MaxFitInstances, no : {2}, nf : 1..MaxFeatures]

\* step_decay: the exponent of drop in current_lr_ = learning_rate * drop^step
step_decay(epoch, epochs_drop) == (1 + epoch) \div epochs_drop

FateStart ==
    [pc |-> "new", o |-> NoObj, gens |-> [id \in GenIds |-> 0], X |-> NoneV,
     epochs |-> 0, epochs_drop |-> 1, epoch |-> NoneV, start |-> 0,
     interrupted |-> FALSE, late |-> FALSE, at |-> NoneV, log |-> <<>>,
     exc |-> "none"]

FateInit == fl = FateStart /\ LearnerIdle /\ FetaIdle /\ SubIdle /\ JobIdle /\ RngIdle /\ NetIdle /\ LetorIdle

FateStep(f) == fl' = f /\ UNCHANGED <<obj, gens, ret, calls, feta, sub, job, rng, net, letor>>

\* FATELinearCore.__init__
FateConstruct(h, batch_size, epochs_drop, random_state) ==
    /\ fl.pc = "new"
    /\ FateStep([fl EXCEPT !.pc = "idle", !.epochs_drop = epochs_drop,
                           !.o = FATELinearCore_init("FATELinearObjectRanker", h,
                                                     batch_size, random_state)])

\* fit, lines 96-103, and the entry of the try block of _fit_
FateFitCall(X, epochs) ==
    /\ fl.pc = "idle"
    /\ LET b == FATELinearCore_fit_begin(fl.o, X, fl.gens)
       IN  FateStep([fl EXCEPT !.pc = "for_epoch", !.o = b.obj, !.gens = b.gens,
                               !.X = Some(X), !.epochs = epochs, !.epoch = NoneV,
                               !.start = 0, !.interrupted = FALSE, !.late = FALSE,
                               !.at = NoneV, !.log = <<>>, !.exc = "none"])

\* line 118: for epoch in range(epochs) binds the next epoch, or ends the loop
FateForEpoch ==
    /\ fl.pc = "for_epoch"
    /\ LET next == IF fl.epoch = NoneV THEN 0 ELSE Val(fl.epoch) + 1
       IN  IF next < fl.epochs
           THEN FateStep([fl EXCEPT !.pc = "for_batch", !.epoch = Some(next),
                                    !.start = 0])
           ELSE FateStep([fl EXCEPT !.pc = "after_loop"])

\* lines 119-124: one batch
FateBatch ==
    /\ fl.pc = "for_batch" /\ fl.start < Val(fl.X).ni
    /\ LET end == Min2(fl.start + fl.o.batch_size, Val(fl.X).ni)
       IN  FateStep([fl EXCEPT !.o.tf = Some(optimizer_run(Val(fl.o.tf), fl.start, end)),
                               !.start = fl.start + fl.o.batch_size])

\* lines 127-133: the end of an epoch
FateEpochEnd ==
    /\ fl.pc = "for_batch" /\ fl.start >= Val(fl.X).ni
    /\ FateStep([fl EXCEPT !.pc = "for_epoch",
                           !.o.current_lr_ = Some(step_decay(Val(fl.epoch), fl.epochs_drop))])

\* KeyboardInterrupt is raised inside the try block of _fit_, lines 117-133
FateInterrupt ==
    /\ fl.pc \in {"for_epoch", "for_batch"}
    /\ FateStep([fl EXCEPT !.pc = "except", !.interrupted = TRUE, !.at = fl.o.tf])

\* lines 134-137: the handler logs "Interrupted", evaluates the loss and logs it
\* with epoch + 1; reading epoch before the loop has bound it raises
FateHandler(f) ==
    IF f.epoch = NoneV
    THEN [f EXCEPT !.pc = "done", !.log = <<"Interrupted">>,
                   !.exc = "UnboundLocalError"]
    ELSE [f EXCEPT !.pc = "after_loop", !.log = <<"Interrupted", "loss">>]

FateExcept ==
    /\ fl.pc = "except"
    /\ FateStep(FateHandler(fl))

\* fit, lines 105-114: the loss is logged and the session's variables are
\* stored
FateFitEnd ==
    /\ fl.pc = "after_loop"
    /\ FateStep([fl EXCEPT !.pc = "done", !.exc = "ok",
                           !.o = FATELinearCore_fit_end(fl.o)])

\* KeyboardInterrupt is raised in fit outside _fit_, lines 105-114
FateInterruptLate ==
    /\ fl.pc = "after_loop"
    /\ FateStep([fl EXCEPT !.pc = "done", !.late = TRUE, !.exc = "KeyboardInterrupt"])

FateNext ==
    \/ \E h \in 1..MaxHidden, batch_size \in 1..MaxFitInstances,
          epochs_drop \in 1..MaxFitEpochs, random_state \in RandomStates :
            FateConstruct(h, batch_size, epochs_drop, random_state)
    \/ \E X \in FitShapes, epochs \in 0..MaxFitEpochs : FateFitCall(X, epochs)
    \/ FateForEpoch
    \/ FateBatch
    \/ FateEpochEnd
    \/ FateInterrupt
    \/ FateExcept
    \/ FateFitEnd
    \/ FateInterruptLate

SpecFate == FateInit /\ [][FateNext]_vars

\* C6: when KeyboardInterrupt is raised at a point of the epoch/batch loop of
\* _fit_, fit returns normally, the loss has been logged, and weight1_, bias1_,
\* weight2_ and bias2_ hold the weights reached at the interruption.
C6_InterruptReturnsPartialModel ==
    (fl.pc = "done" /\ fl.interrupted /\ ~fl.late) =>
        /\ fl.exc = "ok"
        /\ fl.log = <<"Interrupted", "loss">>
        /\ fl.o.weight1_ = Some(Val(fl.at).W1)
        /\ fl.o.bias1_ = Some(Val(fl.at).b1)
        /\ fl.o.weight2_ = Some(Val(fl.at).W2)
        /\ fl.o.bias2_ = Some(Val(fl.at).b2)

----------------------------------------------------------------------------
(* The experiment runner (experiments/cluster_script.py, __main__)         *)

MaxJobId == 2

MaxFold == 1

\* the rows fetch_job_arguments can find for the cluster id: none, or a job
JobDescriptions ==
    {NoneV} \cup {Some([job_id |-> j, seed |-> sd, fold_id |-> fd, hash_value |-> hv]) :
                    j \in 1..MaxJobId, sd \in 0..MaxSeed, fd \in 0..MaxFold,
                    hv \in 1..MaxJobId}

\* the statements of the try block with the job marked finished before its
\* results are inserted
RunnerSteps_mark_first ==
    <<"seed", "job_id", "fields", "logging", "data", "optimizer", "predict",
      "artifact", "metrics", "mark_running_job_finished", "insert_results">>

\* the statements of the try block, lines 65-161, in their order; each group
\* is made of calls that can raise
RunnerSteps ==
    <<"seed", "job_id", "fields", "logging", "data", "optimizer", "predict",
      "artifact", "metrics", "insert_results", "mark_running_job_finished">>

\* the first line of each group
step_line(k) ==
    CASE k = 1 -> 65 [] k = 2 -> 66 [] k = 3 -> 67 [] k = 4 -> 85 [] k = 5 -> 90
      [] k = 6 -> 102 [] k = 7 -> 120 [] k = 8 -> 128 [] k = 9 -> 141
      [] k = 10 -> 159 [] OTHER -> 161

\* what can be raised inside the try block: an Exception, or an exception that
\* is none (KeyboardInterrupt, SystemExit) and reaches the bare except clause
Raised == {"Exception", "BaseException"}

\* the shape of the test data and of the predicted scores: a mapping of
\* buckets of queries, or one array
Containers == {"dict", "array"}

\* lines 128-139 with the container chosen by the test data, not by the scores
pred_file_by_input(X_test, s_pred, hash_value) ==
    [name |-> hash_value, ext |-> IF X_test = "dict" THEN "pkl" ELSE "h5"]

\* lines 128-139: the prediction file, {hash_value}.pkl for a mapping and
\* {hash_value}.h5 for an array
pred_file(X_test, s_pred, hash_value) ==
    [name |-> hash_value, ext |-> IF s_pred = "dict" THEN "pkl" ELSE "h5"]

NoDb == [results |-> NoneV, finished |-> NoneV, error |-> NoneV]

JobStart ==
    [pc |-> "fetch", job_description |-> NoneV, step |-> 0, bound |-> {},
     random_state |-> NoneV, holders |-> {}, X_test |-> "none", s_pred |-> "none",
     artifacts |-> {}, db |-> NoDb, raised |-> "none", at |-> 0,
     log |-> <<>>, escaped |-> "none"]

JobInit == job = JobStart /\ LearnerIdle /\ FetaIdle /\ SubIdle /\ FateIdle /\ RngIdle /\ NetIdle /\ LetorIdle

JobStep(j) == job' = j /\ UNCHANGED <<obj, gens, ret, calls, feta, sub, fl, rng, net, letor>>

\* lines 61-63: the job is fetched; without a job the script ends
RunnerFetch(d) ==
    /\ job.pc = "fetch"
    /\ JobStep([job EXCEPT !.job_description = d,
                           !.pc = IF d = NoneV THEN "end" ELSE "try",
                           !.step = IF d = NoneV THEN 0 ELSE 1])

\* the effect of a group of statements that ends without an exception
run_step(j, name, X_test, s_pred) ==
    LET d == Val(j.job_description)
    IN  CASE name = "seed" -> [j EXCEPT !.bound = @ \cup {"seed"}]
          [] name = "job_id" -> [j EXCEPT !.bound = @ \cup {"job_id"}]
          [] name = "fields" ->
                [j EXCEPT !.bound = @ \cup {"fold_id", "hash_value", "random_state"},
                          !.random_state = Some([kind |-> "inst",
                                                 seed |-> d.seed + d.fold_id])]
          [] name = "logging" -> [j EXCEPT !.bound = @ \cup {"logger"}]
          [] name = "data" ->
                [j EXCEPT !.bound = @ \cup {"X_test", "Y_test", "inner_cv"},
                          !.holders = @ \cup {"dataset_reader", "inner_cv"},
                          !.X_test = X_test]
          [] name = "optimizer" ->
                [j EXCEPT !.bound = @ \cup {"optimizer_model"},
                          !.holders = @ \cup {"optimizer_model"}]
          [] name = "predict" ->
                [j EXCEPT !.bound = @ \cup {"s_pred", "y_pred"}, !.s_pred = s_pred]
          [] name = "artifact" ->
                [j EXCEPT !.artifacts = @ \cup {pred_file(j.X_test, j.s_pred, d.hash_value)}]
          [] name = "metrics" -> [j EXCEPT !.bound = @ \cup {"results"}]
          [] name = "insert_results" -> [j EXCEPT !.db.results = Some(d.job_id)]
          [] OTHER -> [j EXCEPT !.db.finished = Some(d.job_id)]

\* one group of statements of the try block runs to its end
RunnerStep(X_test, s_pred) ==
    /\ job.pc = "try"
    /\ (RunnerSteps[job.step] = "data") = (X_test # "none")
    /\ (RunnerSteps[job.step] = "predict") = (s_pred # "none")
    /\ LET j == run_step(job, RunnerSteps[job.step], X_test, s_pred)
       IN  JobStep(IF job.step = Len(RunnerSteps)
                   THEN [j EXCEPT !.pc = "end"]
                   ELSE [j EXCEPT !.step = job.step + 1])

\* a statement of the group raises: control passes to the except clauses; the
\* statements of lines 128-139 may have created the prediction file before
RunnerRaise(e, created) ==
    /\ job.pc = "try"
    /\ created => RunnerSteps[job.step] = "artifact"
    /\ JobStep([job EXCEPT
            !.pc = "except", !.raised = e, !.at = step_line(job.step),
            !.artifacts = IF created
                          THEN @ \cup {pred_file(job.X_test, job.s_pred,
                                                 Val(job.job_description).hash_value)}
                          ELSE @])

\* lines 162-173: either clause logs the trace through logger and records the
\* error for job_id.  A name the try block has not bound raises NameError,
\* which leaves the script
handler(j) ==
    IF "logger" \notin j.bound
    THEN [j EXCEPT !.pc = "end", !.escaped = "NameError"]
    ELSE IF "job_id" \notin j.bound
    THEN [j EXCEPT !.pc = "end", !.log = Append(@, "trace"), !.escaped = "NameError"]
    ELSE [j EXCEPT !.pc = "end", !.log = Append(@, "trace"),
                   !.db.error = Some(Val(j.job_description).job_id)]

RunnerExcept ==
    /\ job.pc = "except"
    /\ JobStep(handler(job))

RunnerNext ==
    \/ \E d \in JobDescriptions : RunnerFetch(d)
    \/ \E X_test \in Containers \cup {"none"}, s_pred \in Containers \cup {"none"} :
            RunnerStep(X_test, s_pred)
    \/ \E e \in Raised, created \in BOOLEAN : RunnerRaise(e, created)
    \/ RunnerExcept

SpecRunner == JobInit /\ [][RunnerNext]_vars

\* C10: when a statement of the try block has raised, the script ends with the
\* trace logged and the error recorded for the id of the fetched job, and no
\* exception has left the script.
C10_EveryExceptionRecorded ==
    (job.pc = "end" /\ job.raised # "none") =>
        /\ job.escaped = "none"
        /\ job.log = <<"trace">>
        /\ job.db.error = Some(Val(job.job_description).job_id)

----------------------------------------------------------------------------
(* The generators of several holders of a random_state argument:           *)
(* learners (baseline.py, fate_linear.py), and the dataset reader and the  *)
(* cross-validation splitter of the runner (cluster_script.py)             *)

MaxDraws == 3

Learners == {"learner", "other_learner"}

RunnerHolders == {"dataset_reader", "inner_cv", "learner"}

Holders == Learners \cup RunnerHolders

\* how far ahead the sequence of a generator is compared
Horizon == 2

RngStart ==
    [global |-> 0, inst |-> 0, own |-> [h \in Holders |-> 0],
     random_state |-> [h \in Holders |-> NoneV],
     random_state_ |-> [h \in Holders |-> NoneV],
     last |-> [h \in Holders |-> NoneV], draws |-> 0]

RngInit == rng = RngStart /\ LearnerIdle /\ FetaIdle /\ SubIdle /\ FateIdle /\ JobIdle /\ NetIdle /\ LetorIdle

RngStep(r) == rng' = r /\ UNCHANGED <<obj, gens, ret, calls, feta, sub, fl, job, net, letor>>

\* the generators as holder h sees them: numpy's global one, the instance the
\* caller holds, and the one check_random_state seeds for h from an integer
GensOf(r, h) == [id \in GenIds |->
                    IF id = "global" THEN r.global
                    ELSE IF id = "inst" THEN r.inst ELSE r.own[h]]

\* the state of the generator holder h draws from
StateOf(r, h) == GensOf(r, h)[Val(r.random_state_[h])]

\* the numbers holder h draws next if nobody else draws before
NextOf(r, h) == LcgDraw(StateOf(r, h), Horizon)

\* the constructor of a learner stores its random_state argument
RngConstruct(h, random_state) ==
    /\ h \in Learners /\ rng.random_state[h] = NoneV
    /\ RngStep([rng EXCEPT !.random_state[h] = Some(random_state)])

\* cluster_script.py lines 83-104: one RandomState(seed + fold_id) is handed to
\* the dataset reader, to ShuffleSplit and, through the optimizer, to the learner
RngRunner(seed) ==
    /\ \A h \in RunnerHolders : rng.random_state[h] = NoneV
    /\ RngStep([rng EXCEPT
            !.inst = seed % RandMod,
            !.random_state = [h \in Holders |->
                                IF h \in RunnerHolders
                                THEN Some([kind |-> "inst", seed |-> 0]) ELSE @[h]]])

\* RandomBaselineDC.fit line 22, FATELinearCore._pre_fit line 91, and the same
\* call in the reader and the splitter:
\* random_state_ = check_random_state(random_state)
RngCheck(h) ==
    /\ rng.random_state[h] # NoneV
    /\ rng.random_state_[h] = NoneV
    /\ LET c == check_random_state(Val(rng.random_state[h]), GensOf(rng, h))
       IN  RngStep([rng EXCEPT !.random_state_[h] = Some(c.id),
                               !.global = c.gens["global"],
                               !.inst = c.gens["inst"],
                               !.own[h] = c.gens["own"]])

\* holder h draws a number from random_state_ (rand of baseline.py line 26,
\* normal of fate_linear.py lines 41-63)
RngDraw(h) ==
    /\ rng.random_state_[h] # NoneV
    /\ rng.draws < MaxDraws
    /\ LET id == Val(rng.random_state_[h])
           n == LcgNext(StateOf(rng, h))
       IN  RngStep([rng EXCEPT !.last[h] = Some(n),
                               !.draws = @ + 1,
                               !.global = IF id = "global" THEN n ELSE @,
                               !.inst = IF id = "inst" THEN n ELSE @,
                               !.own[h] = IF id = "own" THEN n ELSE @])

RngNext ==
    \/ \E h \in Learners, random_state \in RandomStates : RngConstruct(h, random_state)
    \/ \E seed \in 0..MaxSeed : RngRunner(seed)
    \/ \E h \in Holders : RngCheck(h)
    \/ \E h \in Holders : RngDraw(h)

SpecRng == RngInit /\ [][RngNext]_vars

\* C11 as stated: a draw of one holder never changes the numbers another
\* holder draws afterwards.
C11_OwnGenerators ==
    [][\A h \in Holders : RngDraw(h) =>
          \A k \in Holders \ {h} :
              rng.random_state_[k] # NoneV => NextOf(rng', k) = NextOf(rng, k)]_vars

\* C11 amended: a draw of one holder leaves the numbers of a holder whose
\* random_state is an integer seed unchanged; holders whose random_state is
\* None share numpy's global generator, holders given one RandomState instance
\* (as in the experiment runner) share that instance, and a draw of one of
\* them advances the sequence of the others by one number.
C11_OwnGeneratorIffSeeded ==
    [][\A h \in Holders : RngDraw(h) =>
          \A k \in Holders \ {h} :
              rng.random_state_[k] # NoneV =>
                  LET a == Val(rng.random_state[h]).kind
                      b == Val(rng.random_state[k]).kind
                  IN  IF b = "seed" \/ a # b
                      THEN NextOf(rng', k) = NextOf(rng, k)
                      ELSE NextOf(rng', k) = Tail(LcgDraw(StateOf(rng, k), Horizon + 1))]_vars

\* the reader of the runner has drawn, and so has its learner, from the one
\* instance both were given
C11_Witness ==
    /\ rng.last["dataset_reader"] # NoneV
    /\ rng.last["learner"] # NoneV
    /\ rng.random_state_["dataset_reader"] = Some("inst")
    /\ rng.random_state_["learner"] = Some("inst")

----------------------------------------------------------------------------
(* Further claims about the learners, checked under Spec *)

\* C12: the scores a learner returns for a batch X of shape (n_instances,
\* n_objects, n_features) form an array of shape (n_instances, n_objects).
C12_ScoreShape ==
    \A c \in {calls.first, calls.last} :
        (c.exc = "ok" /\ c.out # NoneV) =>
            /\ Shape2(Val(c.out)) = <<Val(calls.X).ni, Val(calls.X).no>>
            /\ \A i \in 1..Len(Val(c.out)) : Len(Val(c.out)[i]) = Val(calls.X).no

\* a FATELinearCore learner has returned scores
C12_Witness ==
    /\ obj.cls \in FATELinearClasses
    /\ calls.first.exc = "ok"
    /\ calls.first.out # NoneV
\* C13: the weights of a fitted PairwiseSVM are one coefficient per feature,
\* followed by one more entry exactly when fit_intercept is true, and every
\* score is the dot product of the object's features with the per-feature
\* coefficients alone.
C13_LinearUtility ==
    (obj.cls \in SVMClasses /\ obj.fitted /\ obj.weights # NoneV) =>
        LET nf == Val(obj.n_object_features_fit_)
            w == Val(obj.weights)
        IN  /\ Len(w) = nf + (IF obj.fit_intercept THEN 1 ELSE 0)
            /\ \A c \in {calls.first, calls.last} :
                 (c.exc = "ok" /\ c.out # NoneV) =>
                    \A i \in 1..Val(calls.X).ni, k \in 1..Val(calls.X).no :
                        Val(c.out)[i][k] = Dot(XRow(Val(calls.X), i, k), SubSeq(w, 1, nf))

\* a PairwiseSVM fitted with an intercept has returned scores
C13_Witness ==
    /\ obj.cls \in SVMClasses /\ obj.fitted /\ obj.fit_intercept
    /\ Len(Val(obj.weights)) = Val(obj.n_object_features_fit_) + 1
    /\ calls.first.exc = "ok"
    /\ calls.first.out # NoneV


\* the learner a constructor call with the arguments of o returns
NeverFitted(o) ==
    FATELinearCore_init(o.cls, o.n_hidden_set_units, o.batch_size, o.random_state)

\* C19: every fit of a FATELinearCore starts from weights drawn anew from
\* random_state_, the weights a learner never fitted would start from, whatever
\* an earlier fit has stored; with an integer random_state a fit on data of the
\* same shape as the fit before starts from the same initial weights.
C19_FreshWeights ==
    [][(obj.cls \in FATELinearClasses /\ ret'.op = "fit" /\ calls' = NoCalls) =>
          \A X \in Shapes :
              (Some(X.nf) = obj'.n_object_features_fit_ /\ FitFATELinear(X)) =>
                  /\ obj'.tf_init =
                         FATELinearCore_fit_begin(NeverFitted(obj), X, gens).obj.tf_init
                  /\ (/\ obj.random_state.kind = "seed"
                      /\ obj.fitted
                      /\ obj.n_object_features_fit_ = Some(X.nf)) =>
                            obj'.tf_init = obj.tf_init]_vars

\* a FATELinearCore with an integer random_state has been fitted, and the
\* weights it stored are not the ones the fit started from
C19_Witness ==
    /\ obj.cls \in FATELinearClasses
    /\ obj.fitted
    /\ obj.random_state.kind = "seed"
    /\ obj.weight1_ # NoneV
    /\ Some(Val(obj.weight1_)) # Some(Val(obj.tf_init).W1)

----------------------------------------------------------------------------
(* Further claims about the experiment runner, checked under SpecRunner *)

\* the statements of group name have run to their end
Passed(name) ==
    \E k \in 1..Len(RunnerSteps) :
        /\ RunnerSteps[k] = name
        /\ \/ job.step > k
           \/ job.step = k /\ job.pc = "end" /\ job.raised = "none"

RecordedScores ==
    IF obj.cls \in FATELinearClasses /\ calls.X # NoneV
    THEN {Val(c.out)[i][k] : c \in {x \in {calls.first, calls.last} :
                                       x.exc = "ok" /\ x.out # NoneV},
                             i \in 1..Val(calls.X).ni, k \in 1..Val(calls.X).no}
    ELSE {}

----------------------------------------------------------------------------
(* FETAChoiceFunction.construct_model (csrank/choicefunction/feta_choice.py) *)

MaxNetObjects == 4

\* one query of n objects with one feature each
NetQueries(n) == [1..n -> -1..1]

RECURSIVE combinations_from(_, _, _)
\* itertools.combinations(range(n), 2) from the pair (i, j) on, in its order
combinations_from(i, j, n) ==
    IF i >= n - 1 THEN <<>>
    ELSE IF j >= n THEN combinations_from(i + 1, i + 2, n)
    ELSE <<<<i, j>>>> \o combinations_from(i, j + 1, n)

\* every ordered pair of two different positions, in the order of itertools.permutations
permutations_2(n) ==
    LET m == n - 1
    IN  [k \in 1..(n * m) |->
            LET i == (k - 1) \div m
                r == (k - 1) % m
            IN  <<i, IF r < i THEN r ELSE r + 1>>]

\* combinations(range(self.n_objects_fit_), 2), positions counted from 0
combinations_2(n) == combinations_from(0, 1, n)

\* the shared hidden layers and output nodes; their weights are fixed numbers
\* here, the same for every pair
hidden_layers(v) == <<v[1] + 2 * v[2]>>

output_node(v) == 2 * v[1] - v[2]

hidden_layers_zeroth(x) == <<3 * x>>

output_node_zeroth(v) == v[1]

\* lines 205-222 for the pair (i, j) of query x: N_g and N_l
pair_outputs(x, i, j) ==
    LET x1x2 == hidden_layers(<<x[i + 1], x[j + 1]>>)
        x2x1 == hidden_layers(<<x[j + 1], x[i + 1]>>)
    IN  [N_g |-> output_node(x1x2 \o x2x1), N_l |-> output_node(x2x1 \o x1x2)]

\* K.mean(s, axis=1) of the row s, rounded down
K_mean(s) == SumSeq(s) \div Len(s)

NetStart ==
    [pc |-> "new", n_objects_fit_ |-> 0, add_zeroth_order_model |-> FALSE,
     x |-> <<>>, todo |-> <<>>, evaluated |-> <<>>, outputs |-> <<>>,
     zeroth_order_scores |-> NoneV, scores |-> NoneV]

NetInit == net = NetStart /\ LearnerIdle /\ FetaIdle /\ SubIdle /\ FateIdle /\ JobIdle /\ RngIdle /\ LetorIdle

NetStep(v) == net' = v /\ UNCHANGED <<obj, gens, ret, calls, feta, sub, fl, job, rng, letor>>

\* lines 186-203: construct_model is entered for n_objects_fit_ = n; the
\* zeroth-order outputs are one per object; x is the query the built network
\* is later applied to
NetConstruct(n, add_zeroth_order_model, x) ==
    /\ net.pc = "new"
    /\ NetStep([net EXCEPT
            !.pc = "pairs", !.n_objects_fit_ = n, !.x = x,
            !.add_zeroth_order_model = add_zeroth_order_model,
            !.zeroth_order_scores =
                IF add_zeroth_order_model
                THEN Some([i \in 1..n |-> output_node_zeroth(hidden_layers_zeroth(x[i]))])
                ELSE NoneV,
            !.todo = combinations_2(n),
            !.outputs = [i \in 1..n |-> <<>>]])

\* lines 204-225: one pass of the loop over the pairs
NetPair ==
    /\ net.pc = "pairs" /\ net.todo # <<>>
    /\ LET i == Head(net.todo)[1]
           j == Head(net.todo)[2]
           N == pair_outputs(net.x, i, j)
       IN  NetStep([net EXCEPT
                !.todo = Tail(net.todo),
                !.evaluated = Append(@, {i, j}),
                !.outputs[i + 1] = Append(@, [of |-> i, against |-> j, score |-> N.N_g]),
                !.outputs[j + 1] = Append(@, [of |-> j, against |-> i, score |-> N.N_l])])

\* lines 226-238: every object's row is averaged, the zeroth-order scores are
\* added, and the sigmoid activation is applied
NetScores ==
    /\ net.pc = "pairs" /\ net.todo = <<>>
    /\ LET mean == [i \in 1..Len(net.outputs) |->
                        K_mean([k \in 1..Len(net.outputs[i]) |-> net.outputs[i][k].score])]
           added == IF net.add_zeroth_order_model
                    THEN [i \in 1..Len(mean) |-> mean[i] + Val(net.zeroth_order_scores)[i]]
                    ELSE mean
       IN  NetStep([net EXCEPT !.pc = "built",
                               !.scores = Some([i \in 1..Len(added) |-> sigmoid(added[i])])])

NetNext ==
    \/ \E n \in 2..MaxNetObjects, z \in BOOLEAN :
            \E x \in NetQueries(n) : NetConstruct(n, z, x)
    \/ NetPair
    \/ NetScores

SpecNet == NetInit /\ [][NetNext]_vars

\* the number of entries of the sequence s equal to v
Count(s, v) == Cardinality({k \in 1..Len(s) : s[k] = v})

\* C16: construct_model evaluates every unordered pair {i, j} of positions
\* exactly once, n(n-1)/2 evaluations in all; each evaluation appends one
\* directional score to the row of i and one to the row of j, so every row
\* ends with n-1 scores, one against each other object, and the aggregate of
\* an object is the mean of its n-1 scores.
C16_PairsOnce ==
    LET n == net.n_objects_fit_
        Pos == 0..(n - 1)
    IN  /\ \A i \in Pos, j \in Pos : i # j => Count(net.evaluated, {i, j}) <= 1
        /\ \A i \in Pos : net.pc # "new" =>
              /\ Len(net.outputs[i + 1]) = Cardinality({k \in 1..Len(net.evaluated) :
                                                            i \in net.evaluated[k]})
              /\ \A e \in {net.outputs[i + 1][k] : k \in 1..Len(net.outputs[i + 1])} :
                    e.of = i /\ e.against # i
        /\ net.pc = "built" =>
              /\ Len(net.evaluated) = (n * (n - 1)) \div 2
              /\ \A i \in Pos, j \in Pos : i # j => Count(net.evaluated, {i, j}) = 1
              /\ \A i \in Pos :
                    /\ Len(net.outputs[i + 1]) = n - 1
                    /\ \A j \in Pos \ {i} :
                          \E k \in 1..(n - 1) : net.outputs[i + 1][k].against = j
              /\ Len(Val(net.scores)) = n

\* a network for four objects has been built
C16_Witness ==
    /\ net.pc = "built"
    /\ net.n_objects_fit_ = MaxNetObjects
    /\ Len(net.evaluated) > 1

----------------------------------------------------------------------------
(* Further claims about FETAChoiceFunction.fit, checked under SpecFeta *)

\* C17: in a fit call with tune_size > 0 the training part and the held-out
\* part are disjoint and together are all the instances given; super().fit is
\* handed the training part only and _tune_threshold the held-out part only.
C17_SplitDisjoint ==
    feta.tune =>
        /\ feta.train \cap feta.val = {}
        /\ feta.train \cup feta.val = Queries(feta.n)
        /\ feta.fitted_on # NoneV => Val(feta.fitted_on) \cap feta.val = {}
        /\ feta.fitted_on # NoneV => feta.fitted_on = Some(feta.train)
        /\ feta.tuned_on # NoneV => feta.tuned_on = Some(feta.val)

\* a call has fitted the network on two queries and tuned the threshold on a third
C17_Witness ==
    /\ feta.tune
    /\ feta.fitted_on # NoneV /\ feta.tuned_on # NoneV
    /\ Cardinality(feta.train) > 1
    /\ feta.val # {}

----------------------------------------------------------------------------
(* Further claims about sub_sampling, checked under SpecSub *)

\* C18: a call of sub_sampling returns; when the object count exceeds
\* max_number_of_objects it returns bucket_size rows for every query, the rows
\* of a query next to each other and the queries in their order, and
\* otherwise it returns X and Y themselves.
C18_BucketPerQuery ==
    (sub.pc = "idle" /\ sub.rows > 0) =>
        /\ sub.returned
        /\ IF sub.n <= sub.max_number_of_objects THEN sub.same
           ELSE /\ sub.bucket_size = sub.n \div sub.max_number_of_objects
                /\ Len(sub.out) = sub.rows * sub.bucket_size
                /\ \A k \in 1..Len(sub.out) :
                      sub.out[k].src = ((k - 1) \div sub.bucket_size) + 1

----------------------------------------------------------------------------
(* LetorDiscreteChoiceDatasetReader: the files of the folds are read one after
   the other; the fold's own file becomes the test dictionaries and every
   other file is merged, bucket by bucket, into the training dictionaries *)

MaxLetorFiles == 3

MaxRankingLength == 3

MaxBucketRows == 2

\* self.dataset_indices
dataset_indices == 1..MaxLetorFiles

\* the values a file's lengths index can hold
RankingLengths == 2..MaxRankingLength

\* the number of queries file i holds for a ranking length
BucketRows(i, ranking_length) == 1 + ((i + ranking_length) % MaxBucketRows)

\* np.array(file[name_ranking_length]) of file i, a row named by where it was read
FileArray(name, i, ranking_length) ==
    [r \in 1..BucketRows(i, ranking_length) |-> <<name, i, ranking_length, r>>]

\* dict()
Dict == <<>>

\* d[key] = v
Put(d, key, v) == [k \in DOMAIN d \cup {key} |-> IF k = key THEN v ELSE d[k]]

\* the keys from position k on, in the order a dictionary filled by ascending
\* lengths yields them
RECURSIVE keys_from(_, _)
keys_from(S, k) ==
    IF k > MaxRankingLength + 1 THEN <<>>
    ELSE IF k \in S THEN <<k>> \o keys_from(S, k + 1)
    ELSE keys_from(S, k + 1)

keys(d) == keys_from(DOMAIN d, 0)

\* get_rankings_dict(file) for file i with the given lengths index, when
\* __check_dataset_validity__ passes and leaves self.X and self.Y as read
get_rankings_dict(i, lengths) ==
    [X |-> [ranking_length \in lengths |-> FileArray("X", i, ranking_length)],
     Y |-> [ranking_length \in lengths |-> FileArray("Y", i, ranking_length)],
     scores |-> [ranking_length \in lengths |-> FileArray("score", i, ranking_length)]]

\* np.append with the arguments the other way round
np_append_in_front(arr, values) == values \o arr

\* np.append(arr, values, axis=0)
np_append(arr, values) == arr \o values

\* one iteration of the loop of merge_to_train
merge_key(r, key) ==
    LET x == r.X[key]
        y == r.Y[key]
        s == r.scores[key]
    IN  IF key \in DOMAIN r.X_train
        THEN [r EXCEPT !.X_train = Put(@, key, np_append(r.X_train[key], x)),
                       !.Y_train = Put(@, key, np_append(r.Y_train[key], y)),
                       !.scores_train = Put(@, key, np_append(r.scores_train[key], s))]
        ELSE [r EXCEPT !.X_train = Put(@, key, x),
                       !.Y_train = Put(@, key, y),
                       !.scores_train = Put(@, key, s),
                       !.keys_train = Append(@, key)]

\* the reader when __load_dataset__ has created the training dictionaries;
\* files lists the index and the lengths of every file handed to merge_to_train,
\* keys_train is the order in which X_train.keys() yields the keys, and split
\* is how the latest get_single_train_test_split ended
LetorStart(fold, n_objects) ==
    [pc |-> "load", fold |-> fold, n_objects |-> n_objects, i |-> 1, files |-> <<>>,
     X |-> Dict, Y |-> Dict, scores |-> Dict, pending |-> <<>>,
     X_train |-> Dict, Y_train |-> Dict, scores_train |-> Dict, keys_train |-> <<>>,
     X_test |-> NoneV, Y_test |-> NoneV, scores_test |-> NoneV, split |-> NoneV]

LetorInit == (\E fold \in dataset_indices, n_objects \in RankingLengths : letor = LetorStart(fold, n_objects)) /\ LearnerIdle /\ FetaIdle /\ SubIdle /\ FateIdle /\ JobIdle /\ RngIdle /\ NetIdle

LetorStep(r) == letor' = r /\ UNCHANGED <<obj, gens, ret, calls, feta, sub, fl, job, rng, net>>

\* the test of line 26 with every file taken for a training file
is_train_file_always(i, fold) == TRUE

\* if i != self.fold
is_train_file(i, fold) == i # fold

\* X, Y, S = self.get_rankings_dict(file) for a file that is not the fold's,
\* and the call of merge_to_train
LetorReadTrain ==
    /\ letor.pc = "load"
    /\ letor.i \in dataset_indices
    /\ is_train_file(letor.i, letor.fold)
    /\ \E lengths \in SUBSET RankingLengths :
          LET d == get_rankings_dict(letor.i, lengths)
          IN  LetorStep([letor EXCEPT !.pc = "merge",
                                      !.X = d.X, !.Y = d.Y, !.scores = d.scores,
                                      !.pending = keys(d.X),
                                      !.files = Append(@, [i |-> letor.i,
                                                           lengths |-> lengths])])

\* for key in X.keys(): one iteration
LetorMergeKey ==
    /\ letor.pc = "merge"
    /\ letor.pending # <<>>
    /\ LetorStep([merge_key(letor, Head(letor.pending)) EXCEPT
                      !.pending = Tail(letor.pending)])

\* merge_to_train returns and the loop over dataset_indices goes on
LetorMergeReturns ==
    /\ letor.pc = "merge"
    /\ letor.pending = <<>>
    /\ LetorStep([letor EXCEPT !.pc = "load", !.i = @ + 1,
                               !.X = Dict, !.Y = Dict, !.scores = Dict])

\* self.X_test, self.Y_test, self.scores_test = self.get_rankings_dict(file)
LetorReadTest ==
    /\ letor.pc = "load"
    /\ letor.i \in dataset_indices
    /\ ~is_train_file(letor.i, letor.fold)
    /\ \E lengths \in SUBSET RankingLengths :
          LET d == get_rankings_dict(letor.i, lengths)
          IN  LetorStep([letor EXCEPT !.i = @ + 1,
                                      !.X_test = Some(d.X), !.Y_test = Some(d.Y),
                                      !.scores_test = Some(d.scores)])

\* __check_dataset_validity__ raises while a file is read
LetorValidityRaises ==
    /\ letor.pc = "load"
    /\ letor.i \in dataset_indices
    /\ LetorStep([letor EXCEPT !.pc = "raised"])

\* self.logger.info("Done loading the dataset")
LetorLoaded ==
    /\ letor.pc = "load"
    /\ letor.i \notin dataset_indices
    /\ LetorStep([letor EXCEPT !.pc = "done"])

\* X = []: a list, which numpy takes for an array of one dimension
EmptyList == [type |-> "list", ndim |-> 1, width |-> 0, rows |-> <<>>]

\* an array of queries: ndim 3 for features (queries, objects, features) with
\* width objects per query, ndim 1 for labels
ndarray(ndim, width, rows) ==
    [type |-> "ndarray", ndim |-> ndim, width |-> width, rows |-> rows]

\* sub_sampling_discerete_choices(name, X_train[n], scores_train[n], n_objects):
\* int(n / n_objects) queries of n_objects objects for every query of the bucket
sub_sampling_discerete_choices(n, bucket, n_objects) ==
    LET bucket_size == n \div n_objects
    IN  [k \in 1..(Len(bucket) * bucket_size) |->
            <<"sub", bucket[((k - 1) \div bucket_size) + 1], ((k - 1) % bucket_size) + 1>>]

\* np.concatenate([a, b], axis=0): the arrays must have the same number of
\* dimensions and agree in every dimension but the first
np_concatenate_axis0(a, b) ==
    IF a.ndim # b.ndim \/ (a.ndim > 1 /\ a.width # b.width)
    THEN [exc |-> "ValueError", out |-> a]
    ELSE [exc |-> "none", out |-> ndarray(a.ndim, a.width, a.rows \o b.rows)]

\* lines 65-75: the loop over X_train.keys() from position k on
RECURSIVE sub_sampling_loop(_, _, _)
sub_sampling_loop(r, k, acc) ==
    IF k > Len(r.keys_train) \/ acc.exc # "none" THEN acc
    ELSE LET n == r.keys_train[k]
             x == ndarray(3, r.n_objects,
                          sub_sampling_discerete_choices(n, r.X_train[n], r.n_objects))
             y == ndarray(1, 0,
                          sub_sampling_discerete_choices(n, r.Y_train[n], r.n_objects))
             cx == np_concatenate_axis0(acc.X, x)
             cy == np_concatenate_axis0(acc.Y, y)
         IN  IF ~(n > r.n_objects) THEN sub_sampling_loop(r, k + 1, acc)
             ELSE IF Len(acc.X.rows) = 0
             THEN sub_sampling_loop(r, k + 1, [exc |-> "none", X |-> x, Y |-> y])
             ELSE sub_sampling_loop(r, k + 1,
                     [exc |-> IF cx.exc # "none" THEN cx.exc ELSE cy.exc,
                      X |-> cx.out, Y |-> cy.out])

\* sub_sampling_for_dictionary
sub_sampling_for_dictionary(r) ==
    LET l == sub_sampling_loop(r, 1, [exc |-> "none", X |-> EmptyList, Y |-> EmptyList])
        cx == np_concatenate_axis0(l.X, ndarray(3, r.n_objects, r.X_train[r.n_objects]))
        cy == np_concatenate_axis0(l.Y, ndarray(1, 0, r.Y_train[r.n_objects]))
    IN  IF l.exc # "none" THEN l
        ELSE IF r.n_objects \in DOMAIN r.X_train
        THEN (IF cx.exc # "none" THEN [l EXCEPT !.exc = cx.exc]
              ELSE [exc |-> cy.exc, X |-> cx.out, Y |-> cy.out])
        ELSE IF l.X.type = "list" THEN [l EXCEPT !.exc = "AttributeError"]
        ELSE l

\* X, Y, X_test, Y_test = reader.get_single_train_test_split()
LetorSplit ==
    /\ letor.pc = "done"
    /\ letor.split = NoneV
    /\ LetorStep([letor EXCEPT !.split = Some(sub_sampling_for_dictionary(letor))])

LetorNext ==
    \/ LetorReadTrain
    \/ LetorMergeKey
    \/ LetorMergeReturns
    \/ LetorReadTest
    \/ LetorValidityRaises
    \/ LetorLoaded
    \/ LetorSplit

SpecLetor == LetorInit /\ [][LetorNext]_vars

\* the rows the merged files from position k on hold for a key, in file order
RECURSIVE RowsOf(_, _, _, _)
RowsOf(name, files, k, key) ==
    IF k > Len(files) THEN <<>>
    ELSE (IF key \in files[k].lengths THEN FileArray(name, files[k].i, key) ELSE <<>>)
         \o RowsOf(name, files, k + 1, key)

\* the number of rows the merged files hold for a key
RECURSIVE RowCount(_, _, _)
RowCount(files, k, key) ==
    IF k > Len(files) THEN 0
    ELSE (IF key \in files[k].lengths THEN BucketRows(files[k].i, key) ELSE 0)
         + RowCount(files, k + 1, key)

\* C20: when the reader has loaded its files the training dictionaries have
\* one bucket for every ranking length of a merged file; X_train[key],
\* Y_train[key] and scores_train[key] have the same number of rows, the sum of
\* the rows the merged files hold for the key, and hold these rows in file
\* order. An iteration of merge_to_train on a new key adds the key with the
\* file's rows and leaves every other bucket as it was, and an iteration on a
\* known key changes no other bucket either.
C20_BucketsAccumulate ==
    /\ [](letor.pc = "done" =>
            /\ DOMAIN letor.X_train = UNION {letor.files[k].lengths : k \in 1..Len(letor.files)}
            /\ DOMAIN letor.Y_train = DOMAIN letor.X_train
            /\ DOMAIN letor.scores_train = DOMAIN letor.X_train
            /\ \A key \in DOMAIN letor.X_train :
                  /\ Len(letor.X_train[key]) = RowCount(letor.files, 1, key)
                  /\ Len(letor.Y_train[key]) = Len(letor.X_train[key])
                  /\ Len(letor.scores_train[key]) = Len(letor.X_train[key])
                  /\ letor.X_train[key] = RowsOf("X", letor.files, 1, key)
                  /\ letor.Y_train[key] = RowsOf("Y", letor.files, 1, key)
                  /\ letor.scores_train[key] = RowsOf("score", letor.files, 1, key))
    /\ [][LetorMergeKey =>
            LET key == Head(letor.pending)
            IN  /\ key \in DOMAIN letor'.X_train
                /\ key \notin DOMAIN letor.X_train =>
                      /\ letor'.X_train[key] = letor.X[key]
                      /\ letor'.Y_train[key] = letor.Y[key]
                      /\ letor'.scores_train[key] = letor.scores[key]
                /\ \A k \in DOMAIN letor'.X_train \ {key} :
                      /\ k \in DOMAIN letor.X_train
                      /\ letor'.X_train[k] = letor.X_train[k]
                      /\ letor'.Y_train[k] = letor.Y_train[k]
                      /\ letor'.scores_train[k] = letor.scores_train[k]]_vars

\* the reader has loaded its files: one bucket holds the rows of two files and
\* another bucket, met in the later file only, holds the rows of that file
C20_Witness ==
    /\ letor.pc = "done"
    /\ Len(letor.files) = 2
    /\ \E key \in DOMAIN letor.X_train :
          key \in letor.files[1].lengths /\ key \in letor.files[2].lengths
    /\ \E key \in DOMAIN letor.X_train :
          key \notin letor.files[1].lengths /\ key \in letor.files[2].lengths

----------------------------------------------------------------------------
(* Further claims about FETAChoiceFunction.fit, checked under SpecFeta *)

\* C21: once super().fit has raised in a call of fit with tune_size > 0, no
\* later step of the call changes threshold_, the call ends with the error and
\* the learner does not reach FIT.
C21_NoTuningAfterFailure ==
    [][(feta.pc # "idle" /\ feta.tune /\ feta.raised) =>
          /\ feta'.threshold_ = feta.threshold_
          /\ feta'.phase # "FIT"
          /\ feta'.pc = "idle" => feta'.exc # "ok"]_vars

----------------------------------------------------------------------------
(* Further claims about the experiment runner's database calls, checked under
   SpecRunner *)

\* C22: the runner marks a job finished only when its results have been
\* inserted and nothing has been raised; a run that has recorded an error for
\* the job has not marked it finished; and when no job description is fetched
\* nothing is inserted, marked or recorded.
C22_FinishedAfterResults ==
    /\ [](/\ job.db.finished # NoneV =>
                /\ job.db.results = job.db.finished
                /\ job.raised = "none"
          /\ ~(job.db.error # NoneV /\ job.db.finished # NoneV)
          /\ (job.pc # "fetch" /\ job.job_description = NoneV) =>
                /\ job.db = NoDb
                /\ job.pc = "end")
    /\ [][job'.db.finished # job.db.finished =>
             /\ job.db.results # NoneV
             /\ job.raised = "none"
             /\ job'.db.results = job.db.results]_vars

\* a run has inserted the results of its job and marked the job finished
C22_Witness ==
    /\ job.pc = "end"
    /\ job.job_description # NoneV
    /\ job.db.finished # NoneV
    /\ job.db.results # NoneV
    /\ job.db.error = NoneV

----------------------------------------------------------------------------
(* Further claims about the subsamples of sub_sampling, checked under SpecSub *)

\* C23: for a query with fewer chosen objects than max_number_of_objects,
\* every subsample holds max_number_of_objects distinct positions of the
\* query, between one and all of the query's chosen objects, and at least one
\* object that is not chosen.
C23_DistinctPositions ==
    (sub.pc = "draw" /\ Len(where(sub.y, 1, 1)) < sub.max_number_of_objects) =>
        \A b \in 1..Len(sub.idx) :
            /\ sub.idx[b].len = sub.max_number_of_objects
            /\ sub.idx[b].distinct
            /\ sub.idx[b].chosen >= 1
            /\ sub.idx[b].chosen <= Len(where(sub.y, 1, 1))
            /\ sub.idx[b].len - sub.idx[b].chosen >= 1

----------------------------------------------------------------------------
(* Further claims about the reader, checked under SpecLetor *)

\* the rows of the training arrays that come from the bucket of a length
FromBucket(rows, n) ==
    {k \in 1..Len(rows) : rows[k][1] = "sub" /\ rows[k][2][3] = n}

\* C24: when the training dictionary has a bucket of n_objects objects or
\* more, get_single_train_test_split returns training arrays whose queries all
\* have n_objects objects: the subsampled rows of every longer bucket, then
\* the rows of the bucket of n_objects as they are, and nothing of a shorter
\* bucket.
C24_SplitHasNObjects ==
    (letor.split # NoneV /\ \E n \in DOMAIN letor.X_train : n >= letor.n_objects) =>
        LET sp == Val(letor.split)
            exact == IF letor.n_objects \in DOMAIN letor.X_train
                     THEN letor.X_train[letor.n_objects] ELSE <<>>
            head == Len(sp.X.rows) - Len(exact)
        IN  /\ sp.exc = "none"
            /\ sp.X.ndim = 3
            /\ sp.X.width = letor.n_objects
            /\ head >= 0
            /\ SubSeq(sp.X.rows, head + 1, Len(sp.X.rows)) = exact
            /\ \A n \in DOMAIN letor.X_train :
                  Cardinality(FromBucket(SubSeq(sp.X.rows, 1, head), n)) =
                      IF n > letor.n_objects
                      THEN Len(letor.X_train[n]) * (n \div letor.n_objects)
                      ELSE 0
            /\ \A k \in 1..head : sp.X.rows[k][1] = "sub"
            /\ Len(sp.Y.rows) = Len(sp.X.rows)

\* how often a row is in an array
Occurrences(arr, row) == Cardinality({k \in 1..Len(arr) : arr[k] = row})

\* the arrays of a dictionary hold rows of file i only
OnlyFromFile(d, i) == \A key \in DOMAIN d : \A k \in 1..Len(d[key]) : d[key][k][2] = i

\* the arrays of a dictionary hold no row of file i
NothingFromFile(d, i) == \A key \in DOMAIN d : \A k \in 1..Len(d[key]) : d[key][k][2] # i

\* C25: when the reader has loaded its files, the training dictionaries hold
\* no row of the file of the test fold, the test dictionaries hold rows of
\* that file only, and every other file of dataset_indices has been merged
\* once: it has been read once and each of its rows is in its bucket of the
\* training dictionaries exactly once.
C25_FoldHeldOut ==
    letor.pc = "done" =>
        /\ NothingFromFile(letor.X_train, letor.fold)
        /\ NothingFromFile(letor.Y_train, letor.fold)
        /\ NothingFromFile(letor.scores_train, letor.fold)
        /\ letor.X_test # NoneV /\ letor.Y_test # NoneV /\ letor.scores_test # NoneV
        /\ OnlyFromFile(Val(letor.X_test), letor.fold)
        /\ OnlyFromFile(Val(letor.Y_test), letor.fold)
        /\ OnlyFromFile(Val(letor.scores_test), letor.fold)
        /\ \A i \in dataset_indices \ {letor.fold} :
              /\ Cardinality({k \in 1..Len(letor.files) : letor.files[k].i = i}) = 1
              /\ \A k \in 1..Len(letor.files) :
                    letor.files[k].i = i =>
                        \A key \in letor.files[k].lengths :
                            /\ key \in DOMAIN letor.X_train
                            /\ \A r \in 1..BucketRows(i, key) :
                                  /\ Occurrences(letor.X_train[key], <<"X", i, key, r>>) = 1
                                  /\ Occurrences(letor.Y_train[key], <<"Y", i, key, r>>) = 1
                                  /\ Occurrences(letor.scores_train[key],
                                                 <<"score", i, key, r>>) = 1

\* the reader has loaded its files: the file of the fold held rows, which are
\* the test data, and the two other files held rows, which are training data
C25_Witness ==
    /\ letor.pc = "done"
    /\ letor.X_test # NoneV
    /\ DOMAIN Val(letor.X_test) # {}
    /\ Len(letor.files) >= 2
    /\ \A k \in 1..Len(letor.files) : letor.files[k].lengths # {}

====
